---- MODULE Spec2Model ----
(***************************************************************************)
(* Verification model of the circuitous decoder compiler.                  *)
(*                                                                         *)
(* The module holds one specification per component:                       *)
(*   SpecMem     memory-hint layout (IR/Memory.hpp): construct / parse     *)
(*   SpecPass    the pass runner and the passes (Transforms/Passes.hpp)    *)
(*   SpecDec     decoder synthesis for one VerifyInstruction               *)
(*               (SEG/SEGMultiGraph.cpp)                                   *)
(*   SpecDriver  main of the decoder driver (bin/decoder/Decoder.cpp), up  *)
(*               to the call of the optimizer                              *)
(*   SpecSeg     the SEG from dedup to print_semantics_emitter             *)
(*               (SEG/SEGMultiGraph.cpp)                                   *)
(*   SpecEqSat   the equality saturation runner                            *)
(*               (Transforms/EqualitySaturation.cpp)                       *)
(*   SpecHash    SEGNode::get_hash on pairs of trees                       *)
(*   SpecOnlyOne the bit-blastable SMT translation of OnlyOneCondition     *)
(*   SpecSelect  the bit-blastable SMT translation of Select (IR/SMT.hpp)  *)
(*   SpecTodo    TodoQueue::notify (Run/Queue.cpp)                         *)
(*   SpecMemOrder, SpecMemOrderFair                                        *)
(*               QueueWithMemOrder::push (Run/Queue.cpp)                   *)
(***************************************************************************)
EXTENDS Integers, Sequences, FiniteSets, TLC

VARIABLES
    \* ---- memory-hint layout (IR/Memory.hpp) ----
    m_pc,        \* position: "construct", "parse" or "done"
    m_dir,       \* "pc": parse after construct, "cp": construct after parse
    m_P,         \* pointer size the Layout was made with
    m_rec,       \* Parsed::vals, the 8 field values (bit sequences)
    m_bits,      \* the packed value the inserter writes / the extractor reads
    m_in,        \* the input of the round trip (a record or a bit string)
    m_i,         \* loop index of apply() / of the for loop of parse
    m_current,   \* `current`, the running offset
    m_ctrace,    \* <<offset, width>> of every insert() construct made
    m_ptrace,    \* <<offset, width>> of every extract() parse made
    \* ---- pass runner and passes (Transforms/Passes.hpp) ----
    p_pc,        \* "setup", "pass" (before pass->run), "sweep" (before remove_unused), "done"
    p_passes,    \* PassesBase::passes, the names added so far
    p_k,         \* number of run_pass calls begun by Passes::run
    p_ops,       \* the circuit: operand list of every operation
    p_alive,     \* the circuit: the operations it owns
    p_ofpat,     \* operations whose subtree has the remill overflow-flag shape
    p_pre,       \* the circuit handed to the pass that ran last
    p_mid,       \* the circuit that pass returned, before remove_unused
    p_init,      \* the circuit Passes::run was called with
    p_log,       \* the calls made so far, in order
    \* ---- decoder synthesis (SEG/SEGMultiGraph.cpp) ----
    d_pc,        \* "prepare", "keys", "done"
    d_trees,     \* per root operation of the VerifyInstruction, its Circuit subtree
    d_addr,      \* per root operation, the address it is allocated at
    d_pairs,     \* what get_nodes_by_vi returns: the (projection, SEGNode) pairs
    d_roots,     \* the SEGNode shapes with isRoot set
    d_func_decls,\* SEGGraph::func_decls, keyed by get_hash
    d_counter,   \* UniqueNameStorage::counter
    d_todo,      \* the keys of proj_keys still to iterate over
    d_i,         \* prepare: the index of the next projection to prepare
    d_body,      \* the body of the decoder function built so far
    \* ---- the driver (bin/decoder/Decoder.cpp) ----
    drv_pc,      \* "cli", "load", "optimizer", "run", "exit"
    drv_cli,     \* the command line: whether it parses, has help, has version
    drv_input,   \* the circuit the input names, or <<>> when it cannot be loaded
    drv_end,     \* "running", "returned", "aborted", "terminated"
    drv_exit,    \* the value main returned, -1 before it has
    \* ---- the SEG: dedup, prepare, emitter printing (SEG/SEGMultiGraph.cpp) ----
    s_pc,        \* "dedup", "specialize", "costs", "prepare", "print", "done", "aborted"
    s_pool,      \* SEGGraph::_nodes, the node pool
    s_nodes,     \* SEGNode::_nodes of every node: its child pointers
    s_ctx,       \* SEGNode::valid_for_contexts of every node
    s_todo,      \* the nodes the running loop has still to visit
    s_canon,     \* dedup: the nodes kept so far, one per get_hash
    s_cost,      \* per node: inline_cost, fd and subtree_count
    s_func,      \* SEGGraph::func_decls, keyed by get_hash
    s_counter,   \* UniqueNameStorage::counter
    s_max,       \* the value printed for MAX_SIZE_INSTR, -1 before
    s_printed,   \* the emitter functions printed, in order
    s_circuit,   \* the Circuit subtrees the projections were built from
    s_spec,      \* main: the map speciliazes, the specializeble flags, the calls
    \* ---- equality saturation runner (Transforms/EqualitySaturation.cpp) ----
    q_pc,        \* "run", "loop", "match", "apply", "rebuild", "returned"
    q_rules,     \* the rules run was called with
    q_egraph,    \* EqSatRunner::_egraph
    q_matches,   \* step: the vector of (rule, matches) pairs
    q_i,         \* step: the position of the running for loop
    q_stopped,   \* run: Status stopped, "nullopt" or a stop_reason
    \* ---- functions checked on their own: get_hash, the SMT translation ----
    f_pc,        \* which function is called next, or has returned
    f_in,        \* the arguments
    f_out,       \* the result
    \* ---- the interpreter's queues (Run/Queue.cpp) ----
    k_ops,       \* per operation: unique_operands_count and mem_idx (-1: no memory constraint)
    k_calls,     \* per operation: the notify / push calls made for it so far
    k_limit,     \* how many calls are made for one operation at most
    k_blocked,   \* TodoQueue::blocked
    k_q          \* todo, MemoryOrdering::allowed and constraints, waiting, and
                 \* whether a check has failed

memVars == <<m_pc, m_dir, m_P, m_rec, m_bits, m_in, m_i, m_current, m_ctrace, m_ptrace>>
passVars == <<p_pc, p_passes, p_k, p_ops, p_alive, p_ofpat, p_pre, p_mid, p_init, p_log>>

decVars == <<d_pc, d_trees, d_addr, d_pairs, d_roots, d_func_decls, d_counter, d_todo,
            d_body, d_i>>

drvVars == <<drv_pc, drv_cli, drv_input, drv_end, drv_exit>>

segVars == <<s_pc, s_pool, s_nodes, s_ctx, s_todo, s_canon, s_cost, s_func, s_counter,
            s_max, s_printed, s_circuit, s_spec>>

eqVars == <<q_pc, q_rules, q_egraph, q_matches, q_i, q_stopped>>

fnVars == <<f_pc, f_in, f_out>>

queueVars == <<k_ops, k_calls, k_limit, k_blocked, k_q>>

vars == <<memVars, passVars, decVars, drvVars, segVars, eqVars, fnVars, queueVars>>

memOthers == <<passVars, decVars, drvVars, segVars, eqVars, fnVars, queueVars>>
passOthers == <<memVars, decVars, drvVars, segVars, eqVars, fnVars, queueVars>>
decOthers == <<memVars, passVars, drvVars, segVars, eqVars, fnVars, queueVars>>
drvOthers == <<memVars, decVars, segVars, eqVars, fnVars, queueVars>>
segOthers == <<memVars, passVars, decVars, drvVars, eqVars, fnVars, queueVars>>
eqOthers == <<memVars, passVars, decVars, drvVars, segVars, fnVars, queueVars>>
fnOthers == <<memVars, passVars, decVars, drvVars, segVars, eqVars, queueVars>>
queueOthers == <<memVars, passVars, decVars, drvVars, segVars, eqVars, fnVars>>

\* The components a specification does not exercise stay idle.
MemIdle ==
    /\ m_pc = "idle" /\ m_dir = "idle" /\ m_P = 0 /\ m_rec = <<>> /\ m_bits = <<>>
    /\ m_in = <<>> /\ m_i = 0 /\ m_current = 0 /\ m_ctrace = <<>> /\ m_ptrace = <<>>

DecIdle ==
    /\ d_pc = "idle" /\ d_trees = <<>> /\ d_addr = <<>> /\ d_pairs = <<>> /\ d_roots = {}
    /\ d_func_decls = <<>> /\ d_counter = 0 /\ d_todo = <<>> /\ d_body = <<>> /\ d_i = 0

QueueIdle ==
    k_ops = <<>> /\ k_calls = <<>> /\ k_limit = 0 /\ k_blocked = <<>> /\ k_q = <<>>

FnIdle == f_pc = "idle" /\ f_in = <<>> /\ f_out = <<>>

EqIdle ==
    /\ q_pc = "idle" /\ q_rules = <<>> /\ q_egraph = <<>> /\ q_matches = <<>> /\ q_i = 0
    /\ q_stopped = "nullopt"

SegIdle ==
    /\ s_pc = "idle" /\ s_pool = <<>> /\ s_nodes = <<>> /\ s_ctx = <<>> /\ s_todo = <<>>
    /\ s_canon = {} /\ s_cost = <<>> /\ s_func = <<>> /\ s_counter = 0 /\ s_max = -1
    /\ s_printed = <<>> /\ s_circuit = <<>> /\ s_spec = <<>>

DrvIdle ==
    /\ drv_pc = "idle" /\ drv_cli = <<>> /\ drv_input = <<>> /\ drv_end = "idle"
    /\ drv_exit = -1

PassIdle ==
    /\ p_pc = "idle" /\ p_passes = <<>> /\ p_k = 0 /\ p_ops = <<>> /\ p_alive = {}
    /\ p_ofpat = {} /\ p_pre = <<>> /\ p_mid = <<>> /\ p_init = <<>> /\ p_log = <<>>

(***************************************************************************)
(* Generic helpers                                                         *)
(***************************************************************************)
RECURSIVE SumSeq(_)
SumSeq(s) == IF s = <<>> THEN 0 ELSE Head(s) + SumSeq(Tail(s))

Range(s) == {s[k] : k \in DOMAIN s}

(***************************************************************************)
(* IR/Memory.hpp                                                           *)
(***************************************************************************)
e_num == 8

PtrSizes == {32, 64}

\* A layout whose `reserved` field is one bit too wide.
Layout_defs_wide_reserved(ptr_size) == <<1, 1, 7, 4, 4, ptr_size, ptr_size, 64>>

\* Layout::Layout: defs( { 1u, 1u, 6u, 4u, 4u, ptr_size, ptr_size, 64u } )
Layout_defs(ptr_size) == <<1, 1, 6, 4, 4, ptr_size, ptr_size, 64>>

\* Layout::size(): the sum of defs
Layout_size(ptr_size) == SumSeq(Layout_defs(ptr_size))

\* The inserter: writes the `width` bits of val at `offset` of the packed value.
insert(bits, val, offset, width) ==
    [k \in DOMAIN bits |->
        IF offset < k /\ k <= offset + width THEN val[k - offset] ELSE bits[k]]

\* The extractor: reads `width` bits at `offset` of the packed value.
extract(bits, offset, width) == SubSeq(bits, offset + 1, offset + width)

\* An extraction that does not advance the running offset.
parse_advance_stuck(current, e_size) == current

\* do_extract: current += e_size
parse_advance(current, e_size) == current + e_size

\* exec: current += def
construct_advance(current, def) == current + def

Zeros(n) == [k \in 1..n |-> 0]
Ones(n) == [k \in 1..n |-> 1]
OneHot(n, p) == [k \in 1..n |-> IF k = p THEN 1 ELSE 0]

\* The field values the round trip is tried on: every value of a one-bit
\* field; all-one and lowest-bit-only of a 4-bit one; all-zero, all-one and
\* lowest-bit-only of a wider one.
FieldValues(w) ==
    IF w = 1 THEN {Zeros(1), Ones(1)}
    ELSE IF w = 4 THEN {Ones(w), OneHot(w, 1)}
    ELSE {Zeros(w), Ones(w), OneHot(w, 1)}

Records(ptr_size) ==
    LET d == Layout_defs(ptr_size)
    IN {<<a, b, c, e, f, g, h, t>> :
            a \in FieldValues(d[1]), b \in FieldValues(d[2]), c \in FieldValues(d[3]),
            e \in FieldValues(d[4]), f \in FieldValues(d[5]), g \in FieldValues(d[6]),
            h \in FieldValues(d[7]), t \in FieldValues(d[8])}

\* The packed values the round trip is tried on: all-zero, all-one and
\* every single-bit value and its complement.
BitStrings(n) ==
    {Zeros(n), Ones(n)} \cup {OneHot(n, p) : p \in 1..n}
        \cup {[k \in 1..n |-> 1 - OneHot(n, p)[k]] : p \in 1..n}

MemInit ==
    /\ PassIdle /\ DecIdle /\ DrvIdle /\ SegIdle /\ EqIdle /\ FnIdle /\ QueueIdle
    /\ m_P \in PtrSizes
    /\ m_dir \in {"pc", "cp"}
    /\ m_in \in IF m_dir = "pc" THEN Records(m_P) ELSE BitStrings(Layout_size(m_P))
    /\ m_pc = IF m_dir = "pc" THEN "construct" ELSE "parse"
    /\ m_rec = IF m_dir = "pc" THEN m_in ELSE <<>>
    /\ m_bits = IF m_dir = "pc" THEN Zeros(Layout_size(m_P)) ELSE m_in
    /\ m_i = 0
    /\ m_current = 0
    /\ m_ctrace = <<>>
    /\ m_ptrace = <<>>

\* construct: one call of exec made by Parsed::apply, f(defs[i], vals[i])
ConstructStep ==
    /\ m_pc = "construct"
    /\ m_i < e_num
    /\ LET def == Layout_defs(m_P)[m_i + 1]
           val == m_rec[m_i + 1]
       IN /\ m_bits' = insert(m_bits, val, m_current, def)
          /\ m_ctrace' = Append(m_ctrace, <<m_current, def>>)
          /\ m_current' = construct_advance(m_current, def)
    /\ m_i' = m_i + 1
    /\ UNCHANGED <<m_pc, m_dir, m_P, m_rec, m_in, m_ptrace, memOthers>>

\* construct returns: the loop of apply is over
ConstructDone ==
    /\ m_pc = "construct"
    /\ m_i = e_num
    /\ m_pc' = IF m_dir = "pc" THEN "parse" ELSE "done"
    /\ m_i' = 0
    /\ m_current' = 0
    /\ m_rec' = IF m_dir = "pc" THEN <<>> ELSE m_rec
    /\ UNCHANGED <<m_dir, m_P, m_bits, m_in, m_ctrace, m_ptrace, memOthers>>

\* parse: one turn of the for loop, out.vals.push_back( do_extract( out.defs[ i ] ) )
ParseStep ==
    /\ m_pc = "parse"
    /\ m_i < e_num
    /\ LET e_size == Layout_defs(m_P)[m_i + 1]
       IN /\ m_rec' = Append(m_rec, extract(m_bits, m_current, e_size))
          /\ m_ptrace' = Append(m_ptrace, <<m_current, e_size>>)
          /\ m_current' = parse_advance(m_current, e_size)
    /\ m_i' = m_i + 1
    /\ UNCHANGED <<m_pc, m_dir, m_P, m_bits, m_in, m_ctrace, memOthers>>

\* parse returns `out`
ParseDone ==
    /\ m_pc = "parse"
    /\ m_i = e_num
    /\ m_pc' = IF m_dir = "cp" THEN "construct" ELSE "done"
    /\ m_i' = 0
    /\ m_current' = 0
    /\ m_bits' = IF m_dir = "cp" THEN Zeros(Layout_size(m_P)) ELSE m_bits
    /\ UNCHANGED <<m_dir, m_P, m_rec, m_in, m_ctrace, m_ptrace, memOthers>>

MemNext == ConstructStep \/ ConstructDone \/ ParseStep \/ ParseDone

SpecMem == MemInit /\ [][MemNext]_vars

(***************************************************************************)
(* Memory-hint layout: properties                                          *)
(***************************************************************************)

\* C2: pack/unpack is a round trip in both directions for P in {32, 64}:
\* parse(construct(record)) returns the record's 8 values, and
\* construct(parse(v)) = v for a bit string v of length 16 + 2P + 64.
C2_RoundTrip ==
    m_pc = "done" =>
        /\ m_dir = "pc" => m_rec = m_in
        /\ m_dir = "cp" => m_bits = m_in

\* Both directions of the round trip have completed on a value that is
\* neither all zero nor all one in the fields before the last.
C2_Witness ==
    /\ m_pc = "done"
    /\ m_P = 64
    /\ m_dir = "pc"
    /\ m_rec[3] = OneHot(6, 1)
    /\ m_rec[6] = OneHot(64, 1)
    /\ m_rec[8] = Ones(64)

\* The widths and offsets the layout fixes, written out.
ExpectedWidths(ptr_size) ==
    [i \in 1..8 |-> CASE i = 1 -> 1 [] i = 2 -> 1 [] i = 3 -> 6 [] i = 4 -> 4
                      [] i = 5 -> 4 [] i = 6 -> ptr_size [] i = 7 -> ptr_size
                      [] i = 8 -> 64]

ExpectedTrace(ptr_size, n) ==
    [i \in 1..n |-> <<SumSeq(SubSeq(ExpectedWidths(ptr_size), 1, i - 1)),
                      ExpectedWidths(ptr_size)[i]>>]

BitRange(ow) == (ow[1])..(ow[1] + ow[2] - 1)

GapFree(trace, ptr_size) ==
    /\ \A i, j \in DOMAIN trace : i # j => BitRange(trace[i]) \cap BitRange(trace[j]) = {}
    /\ UNION {BitRange(trace[i]) : i \in DOMAIN trace} = 0..(16 + 2 * ptr_size + 64 - 1)

\* C3: size(P) = 16 + 2P + 64, parse and construct visit the fields in
\* layout order with widths 1,1,6,4,4,P,P,64, the i-th at the offset that is
\* the sum of the widths before it; the 8 ranges are pairwise disjoint and
\* cover exactly [0, size(P)).
C3_LayoutFixed ==
    /\ Layout_size(m_P) = 16 + 2 * m_P + 64
    /\ Layout_size(m_P) = IF m_P = 32 THEN 144 ELSE 208
    /\ m_ctrace = ExpectedTrace(m_P, Len(m_ctrace))
    /\ m_ptrace = ExpectedTrace(m_P, Len(m_ptrace))
    /\ Len(m_ctrace) = e_num => GapFree(m_ctrace, m_P)
    /\ Len(m_ptrace) = e_num => GapFree(m_ptrace, m_P)

\* Both operations have visited all 8 fields.
C3_Witness ==
    /\ m_pc = "done"
    /\ Len(m_ctrace) = e_num
    /\ Len(m_ptrace) = e_num
    /\ m_ptrace[8] = <<m_P + m_P + 16, 64>>


(***************************************************************************)
(* Circuit IR: the operations of the circuits the passes are run on.       *)
(* An operation is a number; its kind and register name never change, its  *)
(* operand list does.  Operations 23 and 24 do not exist at first: they    *)
(* are the ones circuit->create< Xor >() makes.                            *)
(***************************************************************************)
NodeIds == 1..24

root == 1

KindOf ==
    <<"Circuit", "VerifyInstruction", "VerifyInstruction", "RegConstraint",
      "RegConstraint", "RegConstraint", "Or", "Or",
      "AdviceConstraint", "And", "Advice", "Advice",
      "RegConstraint", "InputRegister", "OutputRegister", "OutputRegister",
      "OutputRegister", "InputRegister", "OutputRegister", "AdviceConstraint",
      "Advice", "AdviceConstraint", "Xor", "Xor">>

reg_name ==
    <<"", "", "", "", "", "", "", "", "", "", "", "", "",
      "EAX", "EAX", "EBX", "OF", "CF", "CF", "", "", "", "", "">>

isa(kind, op) == KindOf[op] = kind

FreshIds == {n \in NodeIds : isa("Xor", n)}

\* The constraints a VerifyInstruction may hold.
Constraints == <<4, 5, 6, 7, 9, 13, 20, 22>>

\* Operand lists of Or 7, Or 8, RegConstraint 13 and AdviceConstraint 22 in
\* the variants of the circuit: nested single-operand Ors; an identity
\* constraint under Ors and further users of the overflow-flag subtree; an
\* advice chain with a user; two identity constraints under one Or, itself
\* the one operand of another Or.
VariantOps(v) ==
    CASE v = 1 -> [or7 |-> <<8>>, or8 |-> <<5>>, rc13 |-> <<12, 16>>, ac22 |-> <<21, 14>>]
      [] v = 2 -> [or7 |-> <<4, 5>>, or8 |-> <<4>>, rc13 |-> <<10, 19>>, ac22 |-> <<21, 10>>]
      [] v = 3 -> [or7 |-> <<4>>, or8 |-> <<5>>, rc13 |-> <<21, 16>>, ac22 |-> <<21, 14>>]
      [] v = 4 -> [or7 |-> <<8>>, or8 |-> <<4, 13>>, rc13 |-> <<14, 15>>, ac22 |-> <<21, 14>>]

Variants == {1, 2, 3, 4}

BaseOps(v, vi2, vi3) ==
    [n \in NodeIds |->
        CASE n = 1 -> IF vi3 = <<>> THEN <<2>> ELSE <<2, 3>>
          [] n = 2 -> vi2
          [] n = 3 -> vi3
          [] n = 4 -> <<14, 15>>
          [] n = 5 -> <<14, 16>>
          [] n = 6 -> <<10, 17>>
          [] n = 7 -> VariantOps(v).or7
          [] n = 8 -> VariantOps(v).or8
          [] n = 9 -> <<11, 12>>
          [] n = 10 -> <<18, 14>>
          [] n = 13 -> VariantOps(v).rc13
          [] n = 20 -> <<12, 21>>
          [] n = 22 -> VariantOps(v).ac22
          [] OTHER -> <<>>]

\* Ascending lists of 1..MaxVIOperands of the constraints.
MaxVIOperands == 2

RECURSIVE SetToSeq(_)
SetToSeq(S) ==
    IF S = {} THEN <<>>
    ELSE LET m == CHOOSE x \in S : \A y \in S : x <= y
         IN <<m>> \o SetToSeq(S \ {m})

VIOperandLists ==
    {[k \in 1..Len(SetToSeq(I)) |-> Constraints[SetToSeq(I)[k]]] :
        I \in {J \in SUBSET (1..Len(Constraints)) :
                  Cardinality(J) >= 1 /\ Cardinality(J) <= MaxVIOperands}}

SecondVIOperandLists == {<<>>, <<4>>, <<7>>, <<13, 6>>}

RECURSIVE ReachFrom(_, _)
ReachFrom(ops, S) ==
    LET N == S \cup UNION {Range(ops[n]) : n \in S}
    IN IF N = S THEN S ELSE ReachFrom(ops, N)

\* The operations reachable from the root through operand lists.
Reachable(c) == ReachFrom(c.ops, {root})

\* Circuit::remove_unused: the reachability sweep from the root.
remove_unused(c) ==
    LET R == Reachable(c)
    IN [ops |-> [n \in NodeIds |-> IF n \in R THEN c.ops[n] ELSE <<>>],
        alive |-> c.alive \cap R]

\* Operation::users: the operations that have op among their operands.
users(c, op) == {u \in c.alive : op \in Range(c.ops[u])}

RECURSIVE RemoveAll(_, _)
RemoveAll(seq, x) ==
    IF seq = <<>> THEN <<>>
    ELSE IF Head(seq) = x THEN RemoveAll(Tail(seq), x)
    ELSE <<Head(seq)>> \o RemoveAll(Tail(seq), x)

\* Operation::destroy: the operation lets go of its operands.
destroy(c, op) == [c EXCEPT !.ops[op] = <<>>]

\* u->remove_all_operands( op ) for every user u of op
remove_from_users(c, op) ==
    [c EXCEPT !.ops = [n \in NodeIds |-> IF n \in c.alive THEN RemoveAll(c.ops[n], op)
                                          ELSE c.ops[n]]]

\* Operation::replace_all_uses_with: every user refers to `other` where it
\* referred to op.
replace_all_uses_with(c, op, other) ==
    [c EXCEPT !.ops = [n \in NodeIds |->
        IF n \in c.alive
        THEN [k \in DOMAIN c.ops[n] |-> IF c.ops[n][k] = op THEN other ELSE c.ops[n][k]]
        ELSE c.ops[n]]]

(***************************************************************************)
(* Transforms/Passes.hpp: the passes                                       *)
(***************************************************************************)

\* DummyPass::run
DummyPass_run(c) == c

\* An identity test that leaves out the comparison of the register names.
IsIdentity_no_name(c, op) ==
    /\ isa("RegConstraint", op)
    /\ Len(c.ops[op]) >= 2
    /\ isa("InputRegister", c.ops[op][1])
    /\ isa("OutputRegister", c.ops[op][2])

\* RemoveIdentityPass::visit, the test: a RegConstraint of an InputRegister
\* and an OutputRegister of the same reg_name
IsIdentity(c, op) ==
    /\ isa("RegConstraint", op)
    /\ Len(c.ops[op]) >= 2
    /\ isa("InputRegister", c.ops[op][1])
    /\ isa("OutputRegister", c.ops[op][2])
    /\ reg_name[c.ops[op][1]] = reg_name[c.ops[op][2]]

\* RemoveIdentityPass::visit, the walk: the first identity constraint that
\* visit meets, operands visited in order (0 when it meets none).  `todo`
\* is the list of operations still to visit.
RECURSIVE RemoveIdentity_find(_, _)
RemoveIdentity_find(c, todo) ==
    IF todo = <<>> THEN 0
    ELSE IF IsIdentity(c, Head(todo)) THEN Head(todo)
    ELSE RemoveIdentity_find(c, c.ops[Head(todo)] \o Tail(todo))

\* A run that removes the first identity constraint it meets and stops.
RemoveIdentityPass_run_once(c) ==
    LET op == RemoveIdentity_find(c, <<root>>)
    IN IF op = 0 THEN c ELSE remove_from_users(destroy(c, op), op)

\* RemoveIdentityPass::run: visit from the root; an identity constraint is
\* destroyed, taken out of its users, and the walk starts again (return run()).
RECURSIVE RemoveIdentityPass_run(_)
RemoveIdentityPass_run(c) ==
    LET op == RemoveIdentity_find(c, <<root>>)
    IN IF op = 0 THEN c
       ELSE RemoveIdentityPass_run(remove_from_users(destroy(c, op), op))

\* TrivialOrRemoval::visit: the operands first, then an Or with one operand
\* has its uses replaced by that operand.
RECURSIVE TrivialOrRemoval_visit(_, _)
RECURSIVE TrivialOrRemoval_traverse(_, _, _)
\* A visit that replaces a single-operand Or without visiting its operand.
TrivialOrRemoval_visit_no_descent(c, op) ==
    IF isa("Or", op) /\ Len(c.ops[op]) = 1
    THEN replace_all_uses_with(c, op, c.ops[op][1])
    ELSE TrivialOrRemoval_traverse(c, op, 1)

\* A visit that replaces every Or that has operands by its first operand.
TrivialOrRemoval_visit_nonempty(c, op) ==
    LET c1 == TrivialOrRemoval_traverse(c, op, 1)
    IN IF isa("Or", op) /\ Len(c1.ops[op]) >= 1
       THEN replace_all_uses_with(c1, op, c1.ops[op][1])
       ELSE c1

TrivialOrRemoval_traverse(c, op, i) ==
    IF i > Len(c.ops[op]) THEN c
    ELSE TrivialOrRemoval_traverse(TrivialOrRemoval_visit(c, c.ops[op][i]), op, i + 1)

TrivialOrRemoval_visit(c, op) ==
    LET c1 == TrivialOrRemoval_traverse(c, op, 1)
    IN IF isa("Or", op) /\ Len(c1.ops[op]) = 1
       THEN replace_all_uses_with(c1, op, c1.ops[op][1])
       ELSE c1

\* TrivialOrRemoval::run
TrivialOrRemoval_run(c) == TrivialOrRemoval_visit(c, root)

\* Circuit::fetch_reg: the register of that kind and name the circuit owns
\* (0 when it owns none).
fetch_reg(c, kind, name) ==
    IF \E n \in c.alive : isa(kind, n) /\ reg_name[n] = name
    THEN CHOOSE n \in c.alive : isa(kind, n) /\ reg_name[n] = name
    ELSE 0

\* has_remill_overflow_flag_semantics: whether the value the constraint
\* binds has the shape remill gives the overflow flag.
has_remill_overflow_flag_semantics(c, ofpat, rc) == c.ops[rc][1] \in ofpat

\* circuit->create< Xor >( 1u ): the next operation the circuit does not own yet.
create_Xor(c) == CHOOSE x \in FreshIds \ c.alive : \A y \in FreshIds \ c.alive : x <= y

\* A test of the patch that does not look at which register is constrained.
RemillOFPatch_skip_no_of_check(c, ofpat, rc, output_of) ==
    \/ Len(c.ops[rc]) # 2
    \/ ~has_remill_overflow_flag_semantics(c, ofpat, rc)

\* RemillOFPatch::run, the test that makes the loop `continue`
RemillOFPatch_skip(c, ofpat, rc, output_of) ==
    \/ Len(c.ops[rc]) # 2
    \/ c.ops[rc][2] # output_of
    \/ ~has_remill_overflow_flag_semantics(c, ofpat, rc)

\* RemillOFPatch::run, the loop over the RegConstraints, `todo` being the
\* ones still to look at.
RECURSIVE RemillOFPatch_loop(_, _, _, _, _, _)
RemillOFPatch_loop(c, ofpat, todo, output_of, input_cf, output_cf) ==
    IF todo = <<>> THEN c
    ELSE LET rc == Head(todo)
         IN IF RemillOFPatch_skip(c, ofpat, rc, output_of)
            THEN RemillOFPatch_loop(c, ofpat, Tail(todo), output_of, input_cf, output_cf)
            ELSE LET xor_node == create_Xor(c)
                     c1 == [ops |-> [c.ops EXCEPT ![xor_node] = <<input_cf, output_cf>>,
                                                  ![rc] = <<xor_node, c.ops[rc][2]>>],
                            alive |-> c.alive \cup {xor_node}]
                 IN RemillOFPatch_loop(c1, ofpat, Tail(todo), output_of, input_cf, output_cf)

\* RemillOFPatch::run
RemillOFPatch_run(c, ofpat) ==
    LET output_of == fetch_reg(c, "OutputRegister", "OF")
        output_cf == fetch_reg(c, "OutputRegister", "CF")
        input_cf == fetch_reg(c, "InputRegister", "CF")
    IN IF output_of = 0 \/ input_cf = 0 \/ output_cf = 0 THEN c
       ELSE RemillOFPatch_loop(c, ofpat,
                SetToSeq({n \in c.alive : isa("RegConstraint", n)}),
                output_of, input_cf, output_cf)

\* A loop that destroys the constraint and leaves the uses of its second
\* advice as they are.
RECURSIVE MergeAdviceConstraints_loop_keep_uses(_, _)
MergeAdviceConstraints_loop_keep_uses(c, todo) ==
    IF todo = <<>> THEN c
    ELSE LET ac == Head(todo)
         IN IF \/ Len(c.ops[ac]) # 2
               \/ ~isa("Advice", c.ops[ac][1])
               \/ ~isa("Advice", c.ops[ac][2])
            THEN MergeAdviceConstraints_loop_keep_uses(c, Tail(todo))
            ELSE MergeAdviceConstraints_loop_keep_uses(
                     remove_from_users(destroy(c, ac), ac), Tail(todo))

\* MergeAdviceConstraints::run, the loop over the AdviceConstraints
RECURSIVE MergeAdviceConstraints_loop(_, _)
MergeAdviceConstraints_loop(c, todo) ==
    IF todo = <<>> THEN c
    ELSE LET ac == Head(todo)
         IN IF \/ Len(c.ops[ac]) # 2
               \/ ~isa("Advice", c.ops[ac][1])
               \/ ~isa("Advice", c.ops[ac][2])
            THEN MergeAdviceConstraints_loop(c, Tail(todo))
            ELSE LET lhs == c.ops[ac][1]
                     rhs == c.ops[ac][2]
                     c1 == remove_from_users(destroy(c, ac), ac)
                 IN MergeAdviceConstraints_loop(
                        replace_all_uses_with(c1, rhs, lhs), Tail(todo))

\* MergeAdviceConstraints::run
MergeAdviceConstraints_run(c) ==
    MergeAdviceConstraints_loop(c, SetToSeq({n \in c.alive : isa("AdviceConstraint", n)}))

\* PassesBase::known_passes, the passes whose run() is modelled
ModelledPasses ==
    {"dummy-pass", "remove-trivial-or", "remove-identity", "overflow-flag-fix",
     "merge-transitive-advices"}

\* PassesBase::known_passes, the names it recognizes
known_passes ==
    {"eqsat", "merge-advices", "dummy-pass", "trivial-concat-removal",
     "remove-trivial-or", "remove-identity", "overflow-flag-fix",
     "merge-transitive-advices"}

\* pass->run( std::move( circuit ) ), by the pass registered under `name`
pass_run(name, c, ofpat) ==
    CASE name = "dummy-pass" -> DummyPass_run(c)
      [] name = "remove-trivial-or" -> TrivialOrRemoval_run(c)
      [] name = "remove-identity" -> RemoveIdentityPass_run(c)
      [] name = "overflow-flag-fix" -> RemillOFPatch_run(c, ofpat)
      [] name = "merge-transitive-advices" -> MergeAdviceConstraints_run(c)

(***************************************************************************)
(* Transforms/Passes.hpp: the pass runner                                  *)
(***************************************************************************)
MaxPasses == 2

\* A tail that keeps the first element.
tail_whole(vec) == vec

\* detail::tail: the span of all elements after the first
tail(vec) == SubSeq(vec, 2, Len(vec))

\* The pass of the k-th run_pass call of Passes::run: passes.front(), then
\* the elements of detail::tail( passes ) in order.
Passes_run_pass_at(passes, k) == IF k = 1 THEN passes[1] ELSE tail(passes)[k - 1]

\* The number of run_pass calls Passes::run makes.
Passes_run_calls(passes) == IF passes = <<>> THEN 0 ELSE 1 + Len(tail(passes))

Circ == [ops |-> p_ops, alive |-> p_alive]

\* The circuits a run may start from: every variant with every choice of the
\* operands of the VerifyInstructions, swept.  The variant with two
\* identity constraints and the circuits whose first VerifyInstruction has
\* more than two operands have one VerifyInstruction only.
InputCircuits ==
    {remove_unused([ops |-> BaseOps(t[1], t[2], t[3]), alive |-> NodeIds \ FreshIds]) :
        t \in {u \in Variants \X VIOperandLists \X SecondVIOperandLists :
                  (u[1] = 4 \/ Len(u[2]) > 2) => u[3] = <<>>}}

PassInit ==
    /\ MemIdle /\ DecIdle /\ DrvIdle /\ SegIdle /\ EqIdle /\ FnIdle /\ QueueIdle
    /\ p_pc = "setup"
    /\ p_passes = <<>>
    /\ p_k = 0
    /\ \E c \in InputCircuits :
             /\ p_ops = c.ops
             /\ p_alive = c.alive
             /\ p_pre = c
             /\ p_mid = c
             /\ p_init = c
    /\ p_ofpat = {10}
    /\ p_log = <<>>

\* PassesBase::add_pass for a name the registry knows
AddPass ==
    /\ p_pc = "setup"
    /\ Len(p_passes) < MaxPasses
    /\ \E name \in ModelledPasses :
          /\ name \in known_passes
          /\ p_passes' = Append(p_passes, name)
    /\ UNCHANGED <<p_pc, p_k, p_ops, p_alive, p_ofpat, p_pre, p_mid, p_init, p_log, passOthers>>

\* Passes::run is called: with no passes it returns the circuit as it is
RunBegin ==
    /\ p_pc = "setup"
    /\ p_pc' = IF p_passes = <<>> THEN "done" ELSE "pass"
    /\ UNCHANGED <<p_passes, p_k, p_ops, p_alive, p_ofpat, p_pre, p_mid, p_init, p_log, passOthers>>

\* PassesBase::run_pass, first statement: result = pass->run( circuit )
PassRun ==
    /\ p_pc = "pass"
    /\ LET name == Passes_run_pass_at(p_passes, p_k + 1)
           c == pass_run(name, Circ, p_ofpat)
       IN /\ p_ops' = c.ops
          /\ p_alive' = c.alive
          /\ p_pre' = Circ
          /\ p_mid' = c
          /\ p_log' = Append(p_log, [call |-> "run", pass |-> name, circuit |-> Circ])
    /\ p_k' = p_k + 1
    /\ p_pc' = "sweep"
    /\ UNCHANGED <<p_passes, p_ofpat, p_init, passOthers>>

\* PassesBase::run_pass, second statement: result->remove_unused(); then
\* Passes::run goes on to the next pass or returns
PassSweep ==
    /\ p_pc = "sweep"
    /\ LET c == remove_unused(Circ)
       IN /\ p_ops' = c.ops
          /\ p_alive' = c.alive
          /\ p_log' = Append(p_log, [call |-> "remove_unused", pass |-> "", circuit |-> c])
    /\ p_pc' = IF p_k < Passes_run_calls(p_passes) THEN "pass" ELSE "done"
    /\ UNCHANGED <<p_passes, p_k, p_ofpat, p_pre, p_mid, p_init, passOthers>>

PassNext == AddPass \/ RunBegin \/ PassRun \/ PassSweep

SpecPass == PassInit /\ [][PassNext]_vars


(***************************************************************************)
(* Pass runner and passes: properties                                      *)
(***************************************************************************)
LastCall == p_log[Len(p_log)]

\* The pass whose run_pass call has just finished.
SweptPass == p_log[Len(p_log) - 1].pass

JustSwept == p_log # <<>> /\ LastCall.call = "remove_unused"

ReachCount(c) == Cardinality(Reachable(c))

C8_Patchable(c) ==
    IF /\ \E n \in c.alive : KindOf[n] = "OutputRegister" /\ reg_name[n] = "OF"
       /\ \E n \in c.alive : KindOf[n] = "OutputRegister" /\ reg_name[n] = "CF"
       /\ \E n \in c.alive : KindOf[n] = "InputRegister" /\ reg_name[n] = "CF"
    THEN {rc \in c.alive :
            /\ KindOf[rc] = "RegConstraint"
            /\ Len(c.ops[rc]) = 2
            /\ reg_name[c.ops[rc][2]] = "OF"
            /\ c.ops[rc][1] \in p_ofpat}
    ELSE {}

C9_ExpectedCalls(passes, n) ==
    [j \in 1..n |-> IF j % 2 = 1 THEN <<"run", passes[(j + 1) \div 2]>>
                     ELSE <<"remove_unused", "">>]

\* C9: the runner applies the passes in the order they were added, each
\* exactly once and each to the circuit the previous one returned, and calls
\* remove_unused exactly once after every pass, before the next pass starts.
C9_RunsInOrder ==
    /\ Len(p_log) <= 2 * Len(p_passes)
    /\ [j \in 1..Len(p_log) |-> <<p_log[j].call, p_log[j].pass>>]
          = C9_ExpectedCalls(p_passes, Len(p_log))
    /\ \A j \in 1..Len(p_log) :
          p_log[j].call = "run" =>
             p_log[j].circuit = IF j = 1 THEN p_init ELSE p_log[j - 1].circuit
    /\ (p_pc = "done" /\ p_passes # <<>>) =>
          /\ Len(p_log) = 2 * Len(p_passes)
          /\ Circ = LastCall.circuit

\* A runner with two different passes has returned.
C9_Witness ==
    /\ p_pc = "done"
    /\ p_passes = <<"remove-identity", "remove-trivial-or">>
    /\ Len(p_log) = 4
    /\ p_log[3].circuit # p_init

\* The identity constraint: a RegConstraint whose operand 0 is an
\* InputRegister and whose operand 1 is an OutputRegister of the same name.
C10_IdentityConstraint(c, op) ==
    /\ KindOf[op] = "RegConstraint"
    /\ Len(c.ops[op]) = 2
    /\ KindOf[c.ops[op][1]] = "InputRegister"
    /\ KindOf[c.ops[op][2]] = "OutputRegister"
    /\ reg_name[c.ops[op][1]] = reg_name[c.ops[op][2]]

C10_Without(c, seq) == SelectSeq(seq, LAMBDA x : ~C10_IdentityConstraint(c, x))

JustRanRemoveIdentity ==
    /\ p_pc = "sweep"
    /\ LastCall.pass = "remove-identity"

\* C10: after remove-identity no operation reachable from the root has such
\* a constraint among its operands; every former user has lost it from its
\* operand list with nothing in its place, and the operand lists of the
\* other operations are unchanged.
C10_IdentityRemoved ==
    JustRanRemoveIdentity =>
        /\ \A n \in Reachable(Circ) : \A k \in DOMAIN p_ops[n] :
              /\ ~C10_IdentityConstraint(p_pre, p_ops[n][k])
              /\ ~C10_IdentityConstraint(Circ, p_ops[n][k])
        /\ \A n \in Reachable(p_pre) :
              ~C10_IdentityConstraint(p_pre, n) =>
                  p_ops[n] = C10_Without(p_pre, p_pre.ops[n])

\* remove-identity has run on a circuit in which the identity constraint had
\* two users, one of them with another operand that it keeps.
C10_Witness ==
    /\ JustRanRemoveIdentity
    /\ 4 \in Range(p_pre.ops[2])
    /\ 4 \in Range(p_pre.ops[7])
    /\ p_pre.ops[7] = <<4, 5>>
    /\ p_ops[7] = <<5>>
    /\ 7 \in Reachable(Circ)

C11_WitnessTwice ==
    /\ JustRanRemoveIdentity
    /\ p_k = 2 /\ p_passes[1] = "remove-identity"
    /\ p_init # p_pre

\* An Or with exactly one operand
TrivialOr(c, op) == isa("Or", op) /\ Len(c.ops[op]) = 1

\* The operation a chain of single-operand Ors that starts at op ends in
RECURSIVE EndOfOrChain(_, _)
EndOfOrChain(c, op) ==
    IF TrivialOr(c, op) THEN EndOfOrChain(c, c.ops[op][1]) ELSE op

JustSweptTrivialOr == JustSwept /\ SweptPass = "remove-trivial-or"

\* C12: after remove-trivial-or and remove_unused, every operation that had
\* an Or with exactly one operand X as an operand has X at that position,
\* the Or is no longer in the circuit, and the operations that are not
\* single-operand Ors keep their other operands.
C12_UserRefersToOperand ==
    JustSweptTrivialOr =>
        \A y \in Reachable(p_pre) \cap p_alive : \A k \in DOMAIN p_pre.ops[y] :
            LET o == p_pre.ops[y][k]
            IN IF TrivialOr(p_pre, o)
               THEN /\ Len(p_ops[y]) = Len(p_pre.ops[y])
                    /\ p_ops[y][k] = p_pre.ops[o][1]
                    /\ o \notin p_alive
               ELSE ~TrivialOr(p_pre, y) => p_ops[y] # <<>> /\ p_ops[y][k] = o

\* C12, amended: after remove-trivial-or and remove_unused, every operation
\* that was reachable and is not itself a single-operand Or has, at every
\* position, the operation in which the chain of single-operand Ors that
\* started at its old operand ends (the old operand itself when that is not
\* a single-operand Or); no single-operand Or that was reachable is in the
\* circuit any more.
C12_UserRefersToEndOfOrChain ==
    JustSweptTrivialOr =>
        /\ \A y \in Reachable(p_pre) :
              IF TrivialOr(p_pre, y)
              THEN y \notin p_alive /\ y \notin Reachable(Circ)
              ELSE /\ y \in p_alive
                   /\ p_ops[y] = [k \in DOMAIN p_pre.ops[y] |->
                                     EndOfOrChain(p_pre, p_pre.ops[y][k])]
        /\ \A y \in p_alive : ~TrivialOr(Circ, y)

\* remove-trivial-or and remove_unused have run on Or(Or(X)) under a
\* VerifyInstruction: the VerifyInstruction has X, both Ors are gone.
C12_Witness ==
    /\ JustSweptTrivialOr
    /\ p_pre.ops[7] = <<8>> /\ p_pre.ops[8] = <<5>>
    /\ p_pre.ops[2] = <<7>>
    /\ p_ops[2] = <<5>>
    /\ 7 \notin p_alive /\ 8 \notin p_alive

JustRanTrivialOr ==
    /\ p_pc = "sweep"
    /\ LastCall.pass = "remove-trivial-or"

\* C13: remove-trivial-or run again on its own result changes nothing: the
\* result has no single-operand Or reachable from the root, and a runner
\* that has the pass twice gets from the second run the circuit it handed
\* to it.
C13_TrivialOrIdempotent ==
    JustRanTrivialOr =>
        /\ TrivialOrRemoval_run(Circ) = Circ
        /\ \A n \in Reachable(Circ) : ~TrivialOr(Circ, n)
        /\ (p_k = 2 /\ p_passes[1] = "remove-trivial-or") => Circ = p_pre

\* remove-trivial-or has run on Or(Or(X)) with the outer Or an operand of
\* two VerifyInstructions.
C13_Witness ==
    /\ JustRanTrivialOr
    /\ p_pre.ops[7] = <<8>> /\ p_pre.ops[8] = <<5>>
    /\ 7 \in Range(p_pre.ops[2]) /\ p_pre.ops[3] = <<7>>
    /\ 5 \in Range(p_ops[2]) /\ p_ops[3] = <<5>>

JustRanMergeAdvices ==
    /\ p_pc = "sweep"
    /\ LastCall.pass = "merge-transitive-advices"

\* An AdviceConstraint with an Advice as both operands
TransitiveAC(c, n) ==
    /\ isa("AdviceConstraint", n)
    /\ Len(c.ops[n]) = 2
    /\ isa("Advice", c.ops[n][1]) /\ isa("Advice", c.ops[n][2])

\* The advice at the head of the chain of such constraints that x is the
\* second operand of; x itself when it is the second operand of none.
RECURSIVE HeadOfAdviceChain(_, _)
HeadOfAdviceChain(c, x) ==
    IF \E n \in c.alive : TransitiveAC(c, n) /\ c.ops[n][2] = x
    THEN HeadOfAdviceChain(c,
             c.ops[CHOOSE n \in c.alive : TransitiveAC(c, n) /\ c.ops[n][2] = x][1])
    ELSE x

\* The orders in which the loop may meet the AdviceConstraints of a circuit
AdviceConstraintOrders(c) ==
    LET acs == {n \in c.alive : isa("AdviceConstraint", n)}
    IN {o \in [1..Cardinality(acs) -> acs] :
           \A i, j \in DOMAIN o : i # j => o[i] # o[j]}

RECURSIVE Flatten(_)
Flatten(ss) == IF ss = <<>> THEN <<>> ELSE Head(ss) \o Flatten(Tail(ss))

RECURSIVE Pow2(_)
Pow2(b) == IF b = 0 THEN 1 ELSE 2 * Pow2(b - 1)

Leaf == <<>>

\* Circuit subtrees: an operation with operands, or a Select of `bits` index
\* bits whose `ch` are its 2^bits value operands.
Op(ch) == [k |-> "op", id |-> 0, bits |-> 0, ch |-> ch]
Sel(id, bits, ch) == [k |-> "sel", id |-> id, bits |-> bits, ch |-> ch]
L == Op(<<>>)

\* The Circuit subtrees a root operation of the VerifyInstruction may have:
\* no Select (one node; two leaves), one Select (values of different and of
\* equal shape), two independent Selects, a Select under a Select's value,
\* one Select of two index bits.
TreeMenu ==
    << Op(<<>>),
       Op(<<L, L>>),
       Op(<<Sel(1, 1, <<L, Op(<<L>>)>>)>>),
       Op(<<Sel(1, 1, <<L, L>>)>>),
       Op(<<Sel(1, 1, <<L, L>>), Sel(2, 1, <<L, Op(<<L>>)>>)>>),
       Op(<<Sel(1, 1, <<L, Sel(2, 1, <<L, Op(<<L>>)>>)>>)>>),
       Op(<<Sel(3, 2, <<L, L, Op(<<L>>), L>>)>>) >>

HasChoice(choices, id) == \E i \in DOMAIN choices : choices[i].sel = id
ChoiceOf(choices, id) == choices[CHOOSE i \in DOMAIN choices : choices[i].sel = id].chosen_idx

\* UnfinishedProjection::fully_extend: the walk of a Circuit subtree that
\* forks at every Select it has not committed a choice for.  Yields, in
\* order, the select choices and the SEGNode shape of every projection.
RECURSIVE Resolve(_, _)
RECURSIVE ResolveChildren(_, _, _)
Resolve(ct, choices) ==
    IF ct.k = "sel"
    THEN IF HasChoice(choices, ct.id)
         THEN Resolve(ct.ch[ChoiceOf(choices, ct.id) + 1], choices)
         ELSE Flatten([v \in 1..Pow2(ct.bits) |->
                 Resolve(ct.ch[v],
                         Append(choices, [sel |-> ct.id, bits |-> ct.bits,
                                          chosen_idx |-> v - 1]))])
    ELSE ResolveChildren(ct.ch, 1, <<[choices |-> choices, shape |-> <<>>]>>)

ResolveChildren(children, i, alts) ==
    IF i > Len(children) THEN alts
    ELSE ResolveChildren(children, i + 1,
            Flatten([a \in 1..Len(alts) |->
                LET rs == Resolve(children[i], alts[a].choices)
                IN [r \in 1..Len(rs) |->
                       [choices |-> rs[r].choices,
                        shape |-> Append(alts[a].shape, rs[r].shape)]]]))

\* The InstructionProjections of root operation `key`, with their SEGNode.
Projections(key, ct) ==
    LET rs == Resolve(ct, <<>>)
    IN [r \in 1..Len(rs) |->
           [root_in_vi |-> key, select_choices |-> rs[r].choices, node |-> rs[r].shape]]

\* dedup: of the nodes of one get_hash one is kept in the node pool.  With
\* `merge` the kept node takes over the projections of the removed ones;
\* without, the projections whose node was removed (its shape is one `seen`
\* in an earlier VerifyInstruction, or earlier in this one) are no longer
\* found in the pool.
AfterDedup(all, merge, seen) ==
    IF merge THEN all
    ELSE LET keep == {i \in DOMAIN all :
                        /\ all[i].node \notin seen
                        /\ \A j \in 1..(i - 1) : all[j].node # all[i].node}
         IN [k \in 1..Cardinality(keep) |-> all[SetToSeq(keep)[k]]]

\* SEGGraph::calculate_costs: inline_cost and fd of a node
RECURSIVE inline_cost(_, _)
RECURSIVE fd(_, _)
inline_cost(node, roots) ==
    1 + SumSeq([i \in 1..Len(node) |->
                  IF fd(node[i], roots) THEN 1 ELSE inline_cost(node[i], roots)])

fd(node, roots) == inline_cost(node, roots) >= 2 \/ node \in roots

\* expr_for_node: the lvalue and the setup block of a node; func_decls and
\* the name counter as it leaves them.  `rel` is the position of the node in
\* the function whose body the setup block goes to.  A statement is a pop
\* (pop_var = stack[*stack_offset]; *stack_offset += 1), a visitor call or a
\* call of an emitter function.
\* A name storage whose counter stays where it is.
get_unique_var_name_stuck(counter) == counter

\* UniqueNameStorage::get_unique_var_name: counter ++; the value of the
\* counter that the returned name is made of
get_unique_var_name(counter) == counter + 1

\* The character of a decimal digit
digit(d) == <<"0", "1", "2", "3", "4", "5", "6", "7", "8", "9">>[d + 1]

\* std::to_string of a number that is not negative, as its characters
RECURSIVE to_string(_)
to_string(n) ==
    IF n < 10 THEN <<digit(n)>> ELSE Append(to_string(n \div 10), digit(n % 10))

\* "generated_name_" + std::to_string( counter )
generated_name(counter) == <<"generated_name_">> \o to_string(counter)

\* A test of the function table that never finds a declaration.
contains_never(func_decls, node) == FALSE

\* func_decls.contains( node ): the table is keyed by get_hash
contains(func_decls, node) == node \in DOMAIN func_decls

RECURSIVE expr_for_node(_, _, _, _, _)
RECURSIVE expr_for_children(_, _, _, _, _)
expr_for_children(acc, node, i, base, roots) ==
    IF i > Len(node) THEN acc
    ELSE LET r == expr_for_node(acc.func_decls, acc.counter, node[i], Append(base, i), roots)
         IN expr_for_children(
                [func_decls |-> r.func_decls, counter |-> r.counter,
                 local_vars |-> Append(acc.local_vars, r.lval),
                 setup |-> acc.setup \o r.setup],
                node, i + 1, base, roots)

expr_for_node(func_decls, counter, node, rel, roots) ==
    LET is_fd == fd(node, roots)
        base == IF is_fd THEN <<>> ELSE rel
        pop_var == get_unique_var_name(counter)
        kids == expr_for_children(
                    [func_decls |-> func_decls, counter |-> pop_var,
                     local_vars |-> <<pop_var>>, setup |-> <<>>],
                    node, 1, base, roots)
        visitor_call_var == get_unique_var_name(kids.counter)
        setup == kids.setup \o
                 << [s |-> "pop", var |-> pop_var, at |-> base, fn |-> <<>>, name |-> 0],
                    [s |-> "visit", var |-> visitor_call_var, at |-> base, fn |-> <<>>,
                     name |-> 0] >>
    IN IF ~is_fd
       THEN [lval |-> visitor_call_var, setup |-> setup,
             func_decls |-> kids.func_decls, counter |-> visitor_call_var]
       ELSE LET declared == contains(kids.func_decls, node)
                function_name == get_unique_var_name(visitor_call_var)
                decls == IF declared THEN kids.func_decls
                         ELSE (node :> [function_name |-> function_name, body |-> setup])
                                  @@ kids.func_decls
                prev_func_call_var ==
                    get_unique_var_name(IF declared THEN visitor_call_var ELSE function_name)
            IN [lval |-> prev_func_call_var,
                setup |-> << [s |-> "call", var |-> prev_func_call_var,
                              at |-> rel, fn |-> node,
                              name |-> decls[node].function_name] >>,
                func_decls |-> decls, counter |-> prev_func_call_var]

\* The pops that running a setup block makes, in order, each named by the
\* position of the SEGNode that pops; `at` is the position of the function's
\* node.
RECURSIVE RunPops(_, _, _)
RunPops(func_decls, block, at) ==
    Flatten([i \in 1..Len(block) |->
        CASE block[i].s = "pop" -> <<at \o block[i].at>>
          [] block[i].s = "call" ->
                RunPops(func_decls, func_decls[block[i].fn].body, at \o block[i].at)
          [] OTHER -> <<>>])

\* non_unique_dfs< on_open > of a node zipped with the walk of the Circuit
\* subtree: the positions in the order a node is opened.
RECURSIVE dfs_on_open(_, _)
dfs_on_open(node, at) ==
    <<at>> \o Flatten([i \in 1..Len(node) |-> dfs_on_open(node[i], Append(at, i))])

\* A combination of the guards that keeps only the last comparison.
And_last_only(first, eq) == <<eq>>

\* decoder::And( first, eq ): a conjunction is written as the list of its
\* comparisons select_id_<sel> == chosen_idx.
And(first, eq) == first \o <<eq>>

\* get_expression_for_projection, the loop over select_choices that builds
\* the StatementBlock b
RECURSIVE guard_for_choices(_, _, _)
guard_for_choices(b, select_choices, i) ==
    IF i > Len(select_choices) THEN b
    ELSE LET c == select_choices[i]
             eq == [sel |-> c.sel, chosen_idx |-> c.chosen_idx]
         IN guard_for_choices(
                IF b # <<>>
                THEN Append(SubSeq(b, 1, Len(b) - 1), And(b[Len(b)], eq))
                ELSE <<<<eq>>>>,
                select_choices, i + 1)

\* A test for the guard that lets a single select choice go unguarded.
is_guarded_above_one(instr_proj) == Len(instr_proj.select_choices) > 1

\* get_expression_for_projection: if(instr_proj.select_choices.size() > 0)
is_guarded(instr_proj) == Len(instr_proj.select_choices) > 0

\* get_expression_for_projection: the pushes stack[stack_counter++] = <op>
\* of the tandem walk, then the call of the emitter, in an If when the
\* projection has select choices.
get_expression_for_projection(func_decls, instr_proj) ==
    LET pushes == dfs_on_open(instr_proj.node, <<>>)
        funcCall == func_decls[instr_proj.node].function_name
    IN IF is_guarded(instr_proj)
       THEN [stmt |-> "if", cond |-> guard_for_choices(<<>>, instr_proj.select_choices, 1),
             pushes |-> pushes, call |-> funcCall, proj |-> instr_proj]
       ELSE [stmt |-> "block", cond |-> <<>>,
             pushes |-> pushes, call |-> funcCall, proj |-> instr_proj]

\* proj_groups.equal_range( key ): the pairs of a key, in insertion order
equal_range(pairs, key) == SelectSeq(pairs, LAMBDA p : p.root_in_vi = key)

\* std::set< Operation* > proj_keys, as iterated: the keys in the order of
\* their addresses
proj_keys(pairs, addr) ==
    LET keys == {pairs[i].root_in_vi : i \in DOMAIN pairs}
        byAddr == SetToSeq({addr[k] : k \in keys})
    IN [j \in 1..Len(byAddr) |-> CHOOSE k \in keys : addr[k] = byAddr[j]]

MaxKeys == 2

\* The shapes a SEGNode of an earlier VerifyInstruction may have had.
SeenSets == {{}, {Leaf}, {<<Leaf>>}, {<<Leaf, Leaf>>}, {<<<<Leaf>>>>}}

DecInit ==
    /\ MemIdle /\ PassIdle /\ DrvIdle /\ SegIdle /\ EqIdle /\ FnIdle /\ QueueIdle
    /\ \E n \in 1..MaxKeys :
          /\ d_trees \in [1..n -> Range(TreeMenu)]
          /\ d_addr \in {a \in [1..n -> 1..n] : \A i, j \in 1..n : i # j => a[i] # a[j]}
    /\ \E merge \in BOOLEAN, seen \in SeenSets :
          \E all \in {Flatten([k \in DOMAIN d_trees |-> Projections(k, d_trees[k])])} :
             /\ d_pairs = AfterDedup(all, merge, seen)
             /\ d_roots = seen \cup {all[i].node : i \in DOMAIN all}
    /\ d_pairs # <<>>
    /\ d_pc = "prepare"
    /\ d_func_decls = <<>>
    /\ d_counter = 0
    /\ d_todo = <<>>
    /\ d_body = <<>>
    /\ d_i = 1

\* SEGGraph::prepare, one turn of the loop over get_nodes_by_vi( vi )
DecPrepare ==
    /\ d_pc = "prepare"
    /\ d_i <= Len(d_pairs)
    /\ LET r == expr_for_node(d_func_decls, d_counter, d_pairs[d_i].node, <<>>, d_roots)
       IN /\ d_func_decls' = r.func_decls
          /\ d_counter' = r.counter
    /\ d_i' = d_i + 1
    /\ UNCHANGED <<d_pc, d_trees, d_addr, d_pairs, d_roots, d_todo, d_body, decOthers>>

\* SEGGraph::print_decoder up to the loop over proj_keys
DecBegin ==
    /\ d_pc = "prepare"
    /\ d_i > Len(d_pairs)
    /\ d_body' = << [stmt |-> "stack_counter = 0", cond |-> <<>>, pushes |-> <<>>,
                     call |-> 0, proj |-> <<>>] >>
    /\ d_todo' = proj_keys(d_pairs, d_addr)
    /\ d_pc' = "keys"
    /\ UNCHANGED <<d_trees, d_addr, d_pairs, d_roots, d_func_decls, d_counter, d_i, decOthers>>

\* SEGGraph::print_decoder, one turn of the loop over proj_keys, for a key
\* with one projection
DecEmitSingleKey ==
    /\ d_pc = "keys"
    /\ d_todo # <<>>
    /\ LET group == equal_range(d_pairs, Head(d_todo))
       IN /\ Len(group) = 1
          /\ d_body' = Append(d_body, get_expression_for_projection(d_func_decls, group[1]))
    /\ d_todo' = Tail(d_todo)
    /\ UNCHANGED <<d_pc, d_trees, d_addr, d_pairs, d_roots, d_func_decls, d_counter, d_i,
                   decOthers>>

\* SEGGraph::print_decoder, one turn of the loop over proj_keys, for a key
\* with several projections
DecEmitMultiKey ==
    /\ d_pc = "keys"
    /\ d_todo # <<>>
    /\ LET group == equal_range(d_pairs, Head(d_todo))
       IN /\ Len(group) # 1
          /\ d_body' = d_body \o
                [i \in 1..Len(group) |->
                    get_expression_for_projection(d_func_decls, group[i])]
    /\ d_todo' = Tail(d_todo)
    /\ UNCHANGED <<d_pc, d_trees, d_addr, d_pairs, d_roots, d_func_decls, d_counter, d_i,
                   decOthers>>

\* SEGGraph::print_decoder: ep.print( fdb.make() )
DecPrint ==
    /\ d_pc = "keys"
    /\ d_todo = <<>>
    /\ d_pc' = "done"
    /\ UNCHANGED <<d_trees, d_addr, d_pairs, d_roots, d_func_decls, d_counter, d_todo,
                   d_body, d_i, decOthers>>

DecNext == DecPrepare \/ DecBegin \/ DecEmitSingleKey \/ DecEmitMultiKey \/ DecPrint

SpecDec == DecInit /\ [][DecNext]_vars

(***************************************************************************)
(* Decoder synthesis: properties                                           *)
(***************************************************************************)
\* The statements of the decoder body after the first
Blocks == SubSeq(d_body, 2, Len(d_body))

DecKeys == {d_pairs[i].root_in_vi : i \in DOMAIN d_pairs}

GroupOf(key) == equal_range(d_pairs, key)

\* The statements emitted for the projections of a key
StmtsOf(key) == SelectSeq(Blocks, LAMBDA st : st.proj.root_in_vi = key)

\* The keys of a sequence of projections in the order of first appearance
first_appearance(projs) ==
    LET firsts == {i \in DOMAIN projs :
                     \A j \in 1..(i - 1) : projs[j].root_in_vi # projs[i].root_in_vi}
    IN [k \in 1..Cardinality(firsts) |-> projs[SetToSeq(firsts)[k]].root_in_vi]

\* The pops made when the emitter function of the statement's SEGNode runs
emitter_pops(st) == RunPops(d_func_decls, d_func_decls[st.proj.node].body, <<>>)

\* C1: for every projection the decoder writes the stack slots in the order
\* the emitter of its SEGNode pops them: the k-th push is for the operation
\* at the position of the SEGNode that makes the k-th pop, nested emitter
\* calls included.
C1_PushOrderIsPopOrder ==
    d_pc = "done" =>
        \A i \in DOMAIN Blocks : Blocks[i].pushes = emitter_pops(Blocks[i])

\* C1, what the code does: the pushes are in preorder, and the pops are in
\* post-order, a node popping after all its children have.
RECURSIVE dfs_on_close(_, _)
dfs_on_close(node, at) ==
    Flatten([i \in 1..Len(node) |-> dfs_on_close(node[i], Append(at, i))]) \o <<at>>

C1_PopsInPostOrder ==
    d_pc = "done" =>
        \A i \in DOMAIN Blocks :
            /\ emitter_pops(Blocks[i]) = dfs_on_close(Blocks[i].proj.node, <<>>)
            /\ Blocks[i].pushes = dfs_on_open(Blocks[i].proj.node, <<>>)

C1_Witness ==
    /\ d_pc = "done"
    /\ \E i \in DOMAIN Blocks :
          /\ Len(Blocks[i].pushes) = 3
          /\ Blocks[i].pushes[1] = <<>>
          /\ emitter_pops(Blocks[i])[3] = <<>>
          /\ \E j \in DOMAIN d_func_decls[Blocks[i].proj.node].body :
                d_func_decls[Blocks[i].proj.node].body[j].s = "call"

\* The choices of the projections of a group, and the Selects they are for
ChoicesOf(group) == UNION {Range(group[i].select_choices) : i \in DOMAIN group}

SelectsOf(group) == {c.sel : c \in ChoicesOf(group)}

\* An assignment of an index value to every Select of a group
Assignments(group) ==
    {a \in [SelectsOf(group) -> 0..3] :
        \A c \in ChoicesOf(group) : a[c.sel] < Pow2(c.bits)}

\* The value of a condition block under an assignment: every expression of
\* the block, a conjunction of comparisons, is true.
Holds(b, a) ==
    \A e \in DOMAIN b : \A j \in DOMAIN b[e] : a[b[e][j].sel] = b[e][j].chosen_idx

\* Whether an emitted statement runs its pushes and its call
Runs(st, a) == st.stmt = "block" \/ Holds(st.cond, a)

\* print_decoder: target_count, the product of 1 << bits over the set s
RECURSIVE product_of_bits(_)
product_of_bits(cs) ==
    IF cs = {} THEN 1
    ELSE LET c == CHOOSE x \in cs : TRUE
         IN Pow2(c.bits) * product_of_bits({x \in cs : x.sel # c.sel})

target_count(group) == product_of_bits(ChoicesOf(group))

\* print_decoder: bool independent
independent(group) == Len(group) = target_count(group)

C5_GuardsExclusiveAndExhaustive ==
    d_pc = "done" =>
        \A k \in DecKeys :
            (Len(GroupOf(k)) >= 2 /\ independent(GroupOf(k))) =>
                \A a \in Assignments(GroupOf(k)) :
                    Cardinality({i \in DOMAIN StmtsOf(k) : Runs(StmtsOf(k)[i], a)}) = 1

\* A key with four projections over two Selects of one bit each, all guarded
\* by a conjunction of two comparisons.
C5_Witness ==
    /\ d_pc = "done"
    /\ \E k \in DecKeys :
          /\ Len(GroupOf(k)) = 4
          /\ independent(GroupOf(k))
          /\ Cardinality(SelectsOf(GroupOf(k))) = 2
          /\ \A i \in DOMAIN StmtsOf(k) :
                StmtsOf(k)[i].stmt = "if" /\ Len(StmtsOf(k)[i].cond[1]) = 2

\* C6: the decoder body begins with the initialisation of stack_counter and
\* then has the blocks of the keys in the order in which each key first
\* appears among the pairs gathered for the VerifyInstruction, wherever the
\* operations are allocated.
C6_KeysInInsertionOrder ==
    d_pc = "done" =>
        /\ d_body[1].stmt = "stack_counter = 0"
        /\ first_appearance([i \in DOMAIN Blocks |-> Blocks[i].proj])
              = first_appearance(d_pairs)

\* C6, what the code does: the blocks of the keys are in the order of the
\* addresses of the keys.
C6_KeysInAddressOrder ==
    d_pc = "done" =>
        /\ d_body[1].stmt = "stack_counter = 0"
        /\ LET ks == first_appearance([i \in DOMAIN Blocks |-> Blocks[i].proj])
           IN \A i, j \in DOMAIN ks : i < j => d_addr[ks[i]] < d_addr[ks[j]]

C6_Witness ==
    /\ d_pc = "done"
    /\ Cardinality(DecKeys) = 2
    /\ first_appearance([i \in DOMAIN Blocks |-> Blocks[i].proj]) = <<2, 1>>
    /\ first_appearance(d_pairs) = <<1, 2>>

(***************************************************************************)
(* bin/decoder/Decoder.cpp: main                                           *)
(***************************************************************************)
\* main: the names of the three opt.add_pass calls, in order
DriverPasses == <<"remove-transitive-advice", "remove-identity", "remove-trivial-or">>

DrvInit ==
    /\ MemIdle /\ DecIdle /\ PassIdle /\ SegIdle /\ EqIdle /\ FnIdle /\ QueueIdle
    /\ drv_pc = "cli"
    /\ drv_cli \in [parsed : BOOLEAN, help : BOOLEAN, version : BOOLEAN]
    /\ drv_input \in InputCircuits \cup {<<>>}
    /\ drv_end = "running"
    /\ drv_exit = -1

\* main: parse_and_validate_cli, then the help and the version option
DrvCli ==
    /\ drv_pc = "cli"
    /\ IF ~drv_cli.parsed
       THEN drv_pc' = "exit" /\ drv_end' = "returned" /\ drv_exit' = 1
       ELSE IF drv_cli.help
       THEN drv_pc' = "exit" /\ drv_end' = "returned" /\ drv_exit' = 0
       ELSE IF drv_cli.version
       THEN drv_pc' = "exit" /\ drv_end' = "returned" /\ drv_exit' = 1
       ELSE drv_pc' = "load" /\ UNCHANGED <<drv_end, drv_exit>>
    /\ UNCHANGED <<drv_cli, drv_input, passVars, drvOthers>>

\* main: get_input_circuit.  Without a circuit, circ::unreachable() is
\* called, which either ends the process or lets main return 3.  With one,
\* it is verified and the optimizer is constructed, with no passes.
DrvLoad ==
    /\ drv_pc = "load"
    /\ IF drv_input = <<>>
       THEN /\ drv_pc' = "exit"
            /\ \/ drv_end' = "aborted" /\ UNCHANGED drv_exit
               \/ drv_end' = "returned" /\ drv_exit' = 3
            /\ UNCHANGED passVars
       ELSE /\ drv_pc' = "optimizer"
            /\ p_ops' = drv_input.ops
            /\ p_alive' = drv_input.alive
            /\ p_init' = drv_input
            /\ p_pre' = drv_input
            /\ p_mid' = drv_input
            /\ p_ofpat' = {10}
            /\ p_pc' = "setup"
            /\ UNCHANGED <<p_passes, p_k, p_log, drv_end, drv_exit>>
    /\ UNCHANGED <<drv_cli, drv_input, drvOthers>>

\* main: the next opt.add_pass( name ), PassesBase::add_pass: the name is
\* looked up with known_passes.at( name ), which throws std::out_of_range
\* for a name the registry does not have; main catches nothing.
DrvAddPass ==
    /\ drv_pc = "optimizer"
    /\ Len(p_passes) < Len(DriverPasses)
    /\ LET name == DriverPasses[Len(p_passes) + 1]
       IN IF name \in known_passes
          THEN /\ p_passes' = Append(p_passes, name)
               /\ drv_pc' = IF Len(p_passes) + 1 = Len(DriverPasses)
                            THEN "run" ELSE "optimizer"
               /\ UNCHANGED drv_end
          ELSE /\ drv_pc' = "exit"
               /\ drv_end' = "terminated"
               /\ UNCHANGED p_passes
    /\ UNCHANGED <<p_pc, p_k, p_ops, p_alive, p_ofpat, p_pre, p_mid, p_init, p_log,
                   drv_cli, drv_input, drv_exit, drvOthers>>

\* opt.run and what follows it in main start from drv_pc = "run".
DrvNext == DrvCli \/ DrvLoad \/ DrvAddPass

SpecDriver == DrvInit /\ [][DrvNext]_vars

\* C7: once the circuit is loaded and verified and main is past the add_pass
\* calls, the optimizer holds the passes remove-transitive-advice,
\* remove-identity, remove-trivial-or, each found in the registry, in that
\* order, and main goes on to run them.
C7_PipelineResolved ==
    (p_pc = "setup" /\ drv_pc # "optimizer") =>
        /\ p_passes = DriverPasses
        /\ \A i \in DOMAIN p_passes : p_passes[i] \in known_passes
        /\ drv_pc = "run"

\* C7, what the code does: the first add_pass call ends the process, with no
\* pass added and none run.
C7_FirstAddPassThrows ==
    (p_pc = "setup" /\ drv_pc # "optimizer") =>
        /\ drv_pc = "exit" /\ drv_end = "terminated"
        /\ p_passes = <<>> /\ p_log = <<>>

C7_Witness ==
    /\ p_pc = "setup"
    /\ drv_end = "terminated"
    /\ p_alive # {}

\* The names that the function table holds, each with the place it is
\* declared at: the function names and the variables of the statements
NamesAt(func_decls) ==
    {<<h, 0, generated_name(func_decls[h].function_name)>> : h \in DOMAIN func_decls}
    \cup UNION {{<<h, k, generated_name(func_decls[h].body[k].var)>> :
                    k \in DOMAIN func_decls[h].body} : h \in DOMAIN func_decls}

\* C21: the name counter never decreases, every name in the function table
\* was made of a counter value up to the present one, and two names declared
\* at different places of the table are different.
C21_NamesUnique ==
    /\ [](\A x, y \in NamesAt(d_func_decls) : x[3] = y[3] => x = y)
    /\ [](\A h \in DOMAIN d_func_decls :
             /\ d_func_decls[h].function_name \in 1..d_counter
             /\ \A k \in DOMAIN d_func_decls[h].body :
                   d_func_decls[h].body[k].var \in 1..d_counter)
    /\ [][d_counter' >= d_counter]_vars

\* prepare has drawn names of two digits and the table holds several functions
C21_Witness ==
    /\ d_pc = "prepare"
    /\ d_counter >= 12
    /\ Cardinality(DOMAIN d_func_decls) >= 2

RECURSIVE SubShapes(_)
SubShapes(node) == {node} \cup UNION {SubShapes(node[i]) : i \in DOMAIN node}

\* The nodes with fd = true that expr_for_node was asked for so far, by
\* prepare or by expr_for_node for a child
Requested ==
    {h \in UNION {SubShapes(d_pairs[i].node) : i \in 1..(d_i - 1)} : fd(h, d_roots)}

\* The call statements of the bodies in a function table
CallsIn(func_decls) ==
    {st \in UNION {{func_decls[h].body[k] : k \in DOMAIN func_decls[h].body} :
                      h \in DOMAIN func_decls} : st.s = "call"}

\* C16: while prepare runs, the function table holds one declaration for
\* each requested node with fd = true and no other, the names of the
\* declarations are pairwise different, a call in a body names the function
\* of the node it is for, a further request for a declared node leaves the
\* table as it is and returns a call of the declared name, and a step never
\* changes or drops a declaration.
C16_OneDeclarationPerNode ==
    /\ [](d_pc = "prepare" =>
            /\ DOMAIN d_func_decls = Requested
            /\ \A g, h \in DOMAIN d_func_decls :
                  d_func_decls[g].function_name = d_func_decls[h].function_name => g = h
            /\ \A st \in CallsIn(d_func_decls) :
                  st.name = d_func_decls[st.fn].function_name
            /\ \A h \in DOMAIN d_func_decls :
                  LET r == expr_for_node(d_func_decls, d_counter, h, <<>>, d_roots)
                  IN /\ r.func_decls = d_func_decls
                     /\ Len(r.setup) = 1
                     /\ r.setup[1].s = "call"
                     /\ r.setup[1].name = d_func_decls[h].function_name)
    /\ [][\A h \in DOMAIN d_func_decls :
             /\ h \in DOMAIN d_func_decls'
             /\ d_func_decls'[h] = d_func_decls[h]]_vars

\* prepare has asked twice for a node and the table holds a function whose
\* body calls another
C16_Witness ==
    /\ d_pc = "prepare"
    /\ \E i, j \in 1..(d_i - 1) : i # j /\ d_pairs[i].node = d_pairs[j].node
    /\ CallsIn(d_func_decls) # {}

\* ==========================================================================
\*  The SEG as a graph of nodes: dedup, calculate_costs, prepare,
\*  get_maximum_vi_size and print_semantics_emitter, in the order main
\*  runs them (SEG/SEGMultiGraph.cpp, bin/decoder/Decoder.cpp).  A node is
\*  named by its id; its child pointers are s_nodes[id].
\* ==========================================================================

MaxRoots == 3
MaxVIs == 2

\* The shapes of the SEGNode a projection is built with.
SegShapes == {Leaf, <<Leaf>>, <<Leaf, Leaf>>, <<<<Leaf>>>>, <<<<Leaf>>, Leaf>>}

RECURSIVE Size(_)
Size(shape) == 1 + SumSeq([i \in 1..Len(shape) |-> Size(shape[i])])

\* The nodes of one projection, ids given in the order of dfs on_open from
\* `first`: the child pointers of every node.
RECURSIVE Build(_, _)
Build(shape, first) ==
    LET kid == [i \in 1..Len(shape) |->
                   first + 1 + SumSeq([j \in 1..(i - 1) |-> Size(shape[j])])]
    IN <<kid>> \o Flatten([i \in 1..Len(shape) |-> Build(shape[i], kid[i])])

\* A hash that leaves out the "|" after the number of children.
RECURSIVE get_hash_unseparated(_, _)
get_hash_unseparated(nodes, n) ==
    to_string(Len(nodes[n]))
       \o Flatten([i \in 1..Len(nodes[n]) |-> get_hash_unseparated(nodes, nodes[n][i])])

\* SEGNode::get_hash: std::to_string( _nodes.size() ), a "|" and the hashes
\* of the children, as the string of its characters
RECURSIVE get_hash(_, _)
get_hash(nodes, n) ==
    to_string(Len(nodes[n])) \o <<"|">>
       \o Flatten([i \in 1..Len(nodes[n]) |-> get_hash(nodes, nodes[n][i])])

\* gap::graph::dfs< yield_node::on_close > of the graph: every node once,
\* after its children, starting from the pool in order.
RECURSIVE dfs_visit(_, _, _)
RECURSIVE dfs_children(_, _, _, _)
dfs_visit(nodes, acc, n) ==
    IF n \in acc.seen THEN acc
    ELSE LET a == dfs_children(nodes, [seen |-> acc.seen \cup {n}, out |-> acc.out],
                               nodes[n], 1)
         IN [seen |-> a.seen, out |-> Append(a.out, n)]

dfs_children(nodes, acc, ch, i) ==
    IF i > Len(ch) THEN acc
    ELSE dfs_children(nodes, dfs_visit(nodes, acc, ch[i]), ch, i + 1)

graph_dfs_on_close(nodes, pool) ==
    dfs_children(nodes, [seen |-> {}, out |-> <<>>], pool, 1).out

\* A rewrite of the child pointers that leaves them as they are.
replace_all_nodes_by_id_none(nodes, p, new_target, target_id) == nodes[p]

\* SEGNode::replace_all_nodes_by_id on node p: every child pointer whose id
\* is target_id becomes new_target.
replace_all_nodes_by_id(nodes, p, new_target, target_id) ==
    [i \in 1..Len(nodes[p]) |-> IF nodes[p][i] = target_id THEN new_target ELSE nodes[p][i]]

\* SEGGraph::remove_node: std::erase_if( _nodes, ids_match )
remove_node(pool, node) == SelectSeq(pool, LAMBDA x : x # node)

isRoot(ctx, n) == ctx[n] # <<>>

\* The shape a node stands for
RECURSIVE shape_of(_, _)
shape_of(nodes, n) == [i \in 1..Len(nodes[n]) |-> shape_of(nodes, nodes[n][i])]

\* The Operation that a context names as the root of its projection: the
\* one the projection of that number was built from
root_operation(circuit, context) ==
    CHOOSE k \in circuit.first :
       Cardinality({j \in circuit.first : j <= k}) = context.root_in_vi

\* specialize( specs, node, op ): specs.try_emplace( node->id, op ), the
\* flag is cleared when nothing was inserted, then the children of the node
\* with the operands of the operation, until the node has no child for an
\* operand.  `pos` is the place of op in the Circuit subtree.
RECURSIVE specialize(_, _, _, _, _)
RECURSIVE specialize_operands(_, _, _, _, _, _)
specialize(sp, nodes, circuit, node, pos) ==
    LET inserted == sp.specs[node] = 0
    IN specialize_operands(
          [specs |-> IF inserted THEN [sp.specs EXCEPT ![node] = circuit.op[pos]]
                     ELSE sp.specs,
           specializeble |-> IF inserted THEN sp.specializeble
                             ELSE [sp.specializeble EXCEPT ![node] = FALSE],
           log |-> Append(sp.log, <<node, circuit.op[pos]>>)],
          nodes, circuit, node, pos, 0)

specialize_operands(sp, nodes, circuit, node, pos, c) ==
    IF c >= Len(circuit.operands[pos]) THEN sp
    ELSE IF c = Len(nodes[node]) THEN sp
    ELSE specialize_operands(
            specialize(sp, nodes, circuit, nodes[node][c + 1], circuit.operands[pos][c + 1]),
            nodes, circuit, node, pos, c + 1)

\* main: for( auto & op : node->roots ) specialize( speciliazes, node, op.second )
RECURSIVE specialize_contexts(_, _, _, _, _, _)
specialize_contexts(sp, nodes, circuit, node, contexts, j) ==
    IF j > Len(contexts) THEN sp
    ELSE specialize_contexts(
            specialize(sp, nodes, circuit, node, root_operation(circuit, contexts[j])),
            nodes, circuit, node, contexts, j + 1)

\* main: the loop over dfs on_close of the graph that calls specialize for
\* every root operation of every root node
RECURSIVE specialize_roots(_, _, _, _, _, _)
specialize_roots(sp, nodes, circuit, ctx, order, i) ==
    IF i > Len(order) THEN sp
    ELSE specialize_roots(
            specialize_contexts(sp, nodes, circuit, order[i], ctx[order[i]], 1),
            nodes, circuit, ctx, order, i + 1)

\* The attributes of a node that calculate_costs has not visited
fresh_costs(nodes) ==
    [n \in DOMAIN nodes |-> [inline_cost |-> 0, fd |-> FALSE, subtree_count |-> 0]]

SegInit ==
    /\ MemIdle /\ PassIdle /\ DecIdle /\ DrvIdle /\ EqIdle /\ FnIdle /\ QueueIdle
    /\ \E n \in 1..MaxRoots :
         \E shapes \in [1..n -> SegShapes], vis \in [1..n -> 1..MaxVIs] :
            /\ vis[1] = 1
            /\ \A i \in 1..(n - 1) : vis[i + 1] \in {vis[i], vis[i] + 1}
            /\ \E first \in {[i \in 1..n |->
                                1 + SumSeq([j \in 1..(i - 1) |-> Size(shapes[j])])]} :
                  /\ s_nodes = Flatten([i \in 1..n |-> Build(shapes[i], first[i])])
                  /\ s_ctx = [k \in 1..SumSeq([j \in 1..n |-> Size(shapes[j])]) |->
                                 IF \E i \in 1..n : first[i] = k
                                 THEN LET i == CHOOSE i \in 1..n : first[i] = k
                                      IN <<[vi |-> vis[i], root_in_vi |-> i]>>
                                 ELSE <<>>]
    /\ \E shared \in BOOLEAN :
          s_circuit = [operands |-> s_nodes, first |-> {k \in DOMAIN s_ctx : s_ctx[k] # <<>>},
                       op |-> [k \in DOMAIN s_nodes |->
                                 IF shared
                                 THEN CHOOSE j \in DOMAIN s_nodes :
                                        /\ shape_of(s_nodes, j) = shape_of(s_nodes, k)
                                        /\ \A h \in 1..(j - 1) :
                                              shape_of(s_nodes, h) # shape_of(s_nodes, k)
                                 ELSE k]]
    /\ s_spec = [specs |-> [k \in DOMAIN s_nodes |-> 0],
                 specializeble |-> [k \in DOMAIN s_nodes |-> TRUE],
                 log |-> <<>>]
    /\ s_pool = [k \in 1..Len(s_nodes) |-> k]
    /\ s_todo = graph_dfs_on_close(s_nodes, s_pool)
    /\ s_pc = "dedup"
    /\ s_canon = {}
    /\ s_cost = fresh_costs(s_nodes)
    /\ s_func = <<>>
    /\ s_counter = 0
    /\ s_max = -1
    /\ s_printed = <<>>

\* dedup, one node of the bottom-up walk: the first node seen of a hash is
\* kept; a later one is replaced in the child pointers of every node of the
\* pool and removed from the pool.  The kept node may take over the
\* contexts of the removed one.
SegDedupKeep ==
    /\ s_pc = "dedup" /\ s_todo # <<>>
    /\ \A c \in s_canon : get_hash(s_nodes, c) # get_hash(s_nodes, Head(s_todo))
    /\ s_canon' = s_canon \cup {Head(s_todo)}
    /\ s_todo' = Tail(s_todo)
    /\ UNCHANGED <<s_pc, s_pool, s_nodes, s_ctx, s_cost, s_func, s_counter, s_max,
                   s_printed, s_circuit, s_spec, segOthers>>

SegDedupReplace ==
    /\ s_pc = "dedup" /\ s_todo # <<>>
    /\ \E c \in s_canon :
          /\ get_hash(s_nodes, c) = get_hash(s_nodes, Head(s_todo))
          /\ s_nodes' = [p \in DOMAIN s_nodes |->
                            IF \E k \in DOMAIN s_pool : s_pool[k] = p
                            THEN replace_all_nodes_by_id(s_nodes, p, c, Head(s_todo))
                            ELSE s_nodes[p]]
          /\ s_pool' = remove_node(s_pool, Head(s_todo))
          /\ \E merge \in BOOLEAN :
                s_ctx' = IF merge
                         THEN [s_ctx EXCEPT ![c] = s_ctx[c] \o s_ctx[Head(s_todo)]]
                         ELSE s_ctx
    /\ s_todo' = Tail(s_todo)
    /\ UNCHANGED <<s_pc, s_canon, s_cost, s_func, s_counter, s_max, s_printed, s_circuit, s_spec, segOthers>>

SegDedupDone ==
    /\ s_pc = "dedup" /\ s_todo = <<>>
    /\ s_pc' = "specialize"
    /\ s_todo' = graph_dfs_on_close(s_nodes, s_pool)
    /\ UNCHANGED <<s_pool, s_nodes, s_ctx, s_canon, s_cost, s_func, s_counter, s_max,
                   s_printed, s_circuit, s_spec, segOthers>>

\* main: the specialize stage
SegSpecialize ==
    /\ s_pc = "specialize"
    /\ s_spec' = specialize_roots(s_spec, s_nodes, s_circuit, s_ctx,
                                  graph_dfs_on_close(s_nodes, s_pool), 1)
    /\ s_pc' = "costs"
    /\ UNCHANGED <<s_pool, s_nodes, s_ctx, s_todo, s_canon, s_cost, s_func, s_counter,
                   s_max, s_printed, s_circuit, segOthers>>

\* A first loop that adds the inline_cost of every child, fd or not.
RECURSIVE inline_loop_ignores_fd(_, _, _, _, _)
inline_loop_ignores_fd(nodes, ctx, order, i, cost) ==
    IF i > Len(order) THEN cost
    ELSE LET node == order[i]
             c == 1 + SumSeq([k \in 1..Len(nodes[node]) |->
                                 cost[nodes[node][k]].inline_cost])
         IN inline_loop_ignores_fd(nodes, ctx, order, i + 1,
                [cost EXCEPT ![node] = [@ EXCEPT !.inline_cost = c,
                                                 !.fd = @ \/ c >= 2 \/ isRoot(ctx, node)]])

\* A first loop that sets fd on the roots alone.
RECURSIVE inline_loop_roots_only(_, _, _, _, _)
inline_loop_roots_only(nodes, ctx, order, i, cost) ==
    IF i > Len(order) THEN cost
    ELSE LET node == order[i]
             c == 1 + SumSeq([k \in 1..Len(nodes[node]) |->
                         IF cost[nodes[node][k]].fd = FALSE
                         THEN cost[nodes[node][k]].inline_cost
                         ELSE 1])
         IN inline_loop_roots_only(nodes, ctx, order, i + 1,
                [cost EXCEPT ![node] = [@ EXCEPT !.inline_cost = c,
                                                 !.fd = @ \/ isRoot(ctx, node)]])

\* SEGGraph::calculate_costs, the first loop: inline_cost and fd of the
\* nodes in the order of dfs on_close
RECURSIVE inline_loop(_, _, _, _, _)
inline_loop(nodes, ctx, order, i, cost) ==
    IF i > Len(order) THEN cost
    ELSE LET node == order[i]
             c == 1 + SumSeq([k \in 1..Len(nodes[node]) |->
                         IF cost[nodes[node][k]].fd = FALSE
                         THEN cost[nodes[node][k]].inline_cost
                         ELSE 1])
         IN inline_loop(nodes, ctx, order, i + 1,
                [cost EXCEPT ![node] = [@ EXCEPT !.inline_cost = c,
                                                 !.fd = @ \/ c >= 2 \/ isRoot(ctx, node)]])

\* SEGGraph::calculate_costs, the second loop: subtree_count
RECURSIVE subtree_loop(_, _, _, _)
subtree_loop(nodes, order, i, cost) ==
    IF i > Len(order) THEN cost
    ELSE LET node == order[i]
             c == 1 + SumSeq([k \in 1..Len(nodes[node]) |->
                                 cost[nodes[node][k]].subtree_count])
         IN subtree_loop(nodes, order, i + 1,
                         [cost EXCEPT ![node] = [@ EXCEPT !.subtree_count = c]])

\* SEGGraph::calculate_costs on a graph whose nodes hold the attributes `cost`
calculate_costs(nodes, ctx, pool, cost) ==
    LET order == graph_dfs_on_close(nodes, pool)
    IN subtree_loop(nodes, order, 1, inline_loop(nodes, ctx, order, 1, cost))

\* circuit->attr< VerifyInstruction >()
SegVIs(ctx) ==
    LET used == UNION {{ctx[n][j].vi : j \in DOMAIN ctx[n]} : n \in DOMAIN ctx}
    IN [v \in 1..Cardinality(used) |-> v]

\* SEGGraph::get_nodes_by_vi: a pair for every context of vi that a root
\* node of the pool holds
get_nodes_by_vi(pool, ctx, vi) ==
    Flatten([k \in 1..Len(pool) |->
        LET n == pool[k]
            mine == SelectSeq(ctx[n], LAMBDA context : context.vi = vi /\ isRoot(ctx, n))
        IN [j \in 1..Len(mine) |-> [proj |-> mine[j], node |-> n]]])

\* The shapes of the nodes that calculate_costs found isRoot
root_shapes(nodes, ctx, pool) ==
    LET order == graph_dfs_on_close(nodes, pool)
    IN {shape_of(nodes, order[i]) : i \in {j \in DOMAIN order : isRoot(ctx, order[j])}}

\* SEGGraph::prepare, the loop over get_nodes_by_vi( vi )
RECURSIVE prepare_vi(_, _, _, _, _)
prepare_vi(acc, nodes, pairs, i, roots) ==
    IF i > Len(pairs) THEN acc
    ELSE LET r == expr_for_node(acc.func_decls, acc.counter,
                                shape_of(nodes, pairs[i].node), <<>>, roots)
         IN prepare_vi([func_decls |-> r.func_decls, counter |-> r.counter],
                       nodes, pairs, i + 1, roots)

\* The functions of the table in the reverse of the order they are printed in.
print_semantics_emitter_reversed(nodes, pool, func_decls) ==
    LET order == graph_dfs_on_close(nodes, pool)
        found == SelectSeq(order, LAMBDA n : shape_of(nodes, n) \in DOMAIN func_decls)
    IN [i \in 1..Len(found) |-> func_decls[shape_of(nodes, found[Len(found) + 1 - i])]]

\* SEGGraph::print_semantics_emitter: the nodes in the order of dfs
\* on_close, the function of each that func_decls.find finds is printed
print_semantics_emitter(nodes, pool, func_decls) ==
    LET order == graph_dfs_on_close(nodes, pool)
        found == SelectSeq(order, LAMBDA n : shape_of(nodes, n) \in DOMAIN func_decls)
    IN [i \in 1..Len(found) |-> func_decls[shape_of(nodes, found[i])]]

\* The sum that counts a node once however many contexts it holds.
vi_size_per_node(pairs, cost) ==
    LET root_nodes == {pairs[i].node : i \in DOMAIN pairs}
        firsts == SelectSeq([i \in DOMAIN pairs |-> i],
                            LAMBDA i : \A j \in 1..(i - 1) : pairs[j].node # pairs[i].node)
    IN SumSeq([k \in 1..Len(firsts) |-> cost[pairs[firsts[k]].node].subtree_count])

\* SEGGraph::get_maximum_vi_size: std::accumulate over the pairs of a vi
vi_size(pairs, cost) ==
    SumSeq([i \in 1..Len(pairs) |-> cost[pairs[i].node].subtree_count])

\* SEGGraph::get_maximum_vi_size: *std::max_element( vals )
get_maximum_vi_size(pool, ctx, cost) ==
    LET vis == SegVIs(ctx)
        vals == [v \in DOMAIN vis |-> vi_size(get_nodes_by_vi(pool, ctx, vis[v]), cost)]
    IN CHOOSE m \in Range(vals) : \A x \in Range(vals) : x <= m

\* SEGGraph::prepare: calculate_costs()
SegCosts ==
    /\ s_pc = "costs"
    /\ s_cost' = calculate_costs(s_nodes, s_ctx, s_pool, s_cost)
    /\ s_todo' = SegVIs(s_ctx)
    /\ s_pc' = "prepare"
    /\ UNCHANGED <<s_pool, s_nodes, s_ctx, s_canon, s_func, s_counter, s_max, s_printed,
                   s_circuit, s_spec, segOthers>>

\* SEGGraph::prepare, one VerifyInstruction
SegPrepare ==
    /\ s_pc = "prepare" /\ s_todo # <<>>
    /\ \E pairs \in {get_nodes_by_vi(s_pool, s_ctx, Head(s_todo))} :
          /\ pairs # <<>>
          /\ \E r \in {prepare_vi([func_decls |-> s_func, counter |-> s_counter], s_nodes,
                                  pairs, 1, root_shapes(s_nodes, s_ctx, s_pool))} :
                /\ s_func' = r.func_decls
                /\ s_counter' = r.counter
    /\ s_todo' = Tail(s_todo)
    /\ UNCHANGED <<s_pc, s_pool, s_nodes, s_ctx, s_canon, s_cost, s_max, s_printed,
                   s_circuit, s_spec, segOthers>>

\* get_nodes_by_vi: circ::check( m.size() != 0 ) fails
SegPrepareAbort ==
    /\ s_pc = "prepare" /\ s_todo # <<>>
    /\ get_nodes_by_vi(s_pool, s_ctx, Head(s_todo)) = <<>>
    /\ s_pc' = "aborted"
    /\ UNCHANGED <<s_pool, s_nodes, s_ctx, s_todo, s_canon, s_cost, s_func, s_counter,
                   s_max, s_printed, s_circuit, s_spec, segOthers>>

\* main: auto m = seg->get_maximum_vi_size(); ep.print( Assign( max_size_var, Int( m ) ) )
SegMaxSize ==
    /\ s_pc = "prepare" /\ s_todo = <<>>
    /\ s_max' = get_maximum_vi_size(s_pool, s_ctx, s_cost)
    /\ s_pc' = "print"
    /\ UNCHANGED <<s_pool, s_nodes, s_ctx, s_todo, s_canon, s_cost, s_func, s_counter,
                   s_printed, s_circuit, s_spec, segOthers>>

\* main: seg->print_semantics_emitter( ep )
SegPrint ==
    /\ s_pc = "print"
    /\ s_printed' = print_semantics_emitter(s_nodes, s_pool, s_func)
    /\ s_pc' = "done"
    /\ UNCHANGED <<s_pool, s_nodes, s_ctx, s_todo, s_canon, s_cost, s_func, s_counter,
                   s_max, s_circuit, s_spec, segOthers>>

SegNext ==
    \/ SegDedupKeep \/ SegDedupReplace \/ SegDedupDone \/ SegSpecialize
    \/ SegCosts \/ SegPrepare \/ SegPrepareAbort \/ SegMaxSize \/ SegPrint

SpecSeg == SegInit /\ [][SegNext]_vars

\* C15: after dedup, two nodes that are in the pool or reachable from it
\* through child pointers and have the same get_hash are one node, and
\* every reachable node is still in the pool (no removed node is reachable).
C15_EqualHashSameNode ==
    s_pc \notin {"idle", "dedup"} =>
        LET order == graph_dfs_on_close(s_nodes, s_pool)
            reach == {order[i] : i \in DOMAIN order}
            pool == {s_pool[k] : k \in DOMAIN s_pool}
        IN /\ \A a, b \in reach : get_hash(s_nodes, a) = get_hash(s_nodes, b) => a = b
           /\ reach \subseteq pool
           /\ \A p \in reach : \A i \in DOMAIN s_nodes[p] : s_nodes[p][i] \in s_canon

\* dedup has run, has removed a node that had a parent and a subtree of its own
C15_Witness ==
    /\ s_pc = "costs"
    /\ \E d \in DOMAIN s_nodes :
          /\ \A k \in DOMAIN s_pool : s_pool[k] # d
          /\ s_nodes[d] # <<>>
          /\ s_ctx[d] = <<>>
    /\ Len(s_pool) >= 3

\* calculate_costs sets fd on the nodes that the emitter takes as fd
CostsAgree ==
    s_pc \in {"prepare", "print", "done"} =>
        LET order == graph_dfs_on_close(s_nodes, s_pool)
        IN \A i \in DOMAIN order :
              /\ s_cost[order[i]].fd =
                    fd(shape_of(s_nodes, order[i]), root_shapes(s_nodes, s_ctx, s_pool))
              /\ s_cost[order[i]].subtree_count = Size(shape_of(s_nodes, order[i]))

\* The nodes of the SEG: those the walk of the graph from the pool visits
SegNodes == Range(graph_dfs_on_close(s_nodes, s_pool))

\* C23: after calculate_costs every node of the SEG has inline_cost 1 plus,
\* for each child, 1 if the child is fd and its inline_cost if not; it is fd
\* exactly when its inline_cost is 2 or more or it is a root; a leaf has
\* inline_cost 1 and subtree_count 1; and calculate_costs called again
\* leaves the attributes as they are.
C23_CostsAsDefined ==
    s_pc \in {"prepare", "print", "done", "aborted"} =>
        /\ \A n \in SegNodes :
              /\ s_cost[n].inline_cost =
                    1 + SumSeq([k \in 1..Len(s_nodes[n]) |->
                                  IF s_cost[s_nodes[n][k]].fd THEN 1
                                  ELSE s_cost[s_nodes[n][k]].inline_cost])
              /\ s_cost[n].fd <=> (s_cost[n].inline_cost >= 2 \/ isRoot(s_ctx, n))
              /\ s_nodes[n] = <<>> =>
                    s_cost[n].inline_cost = 1 /\ s_cost[n].subtree_count = 1
        /\ calculate_costs(s_nodes, s_ctx, s_pool, s_cost) = s_cost

\* calculate_costs has run on a SEG with a node two levels above a leaf, a
\* node that is fd without being a root and a leaf that is not fd
C23_Witness ==
    /\ s_pc = "prepare"
    /\ \E n \in SegNodes : \E k \in DOMAIN s_nodes[n] : s_nodes[s_nodes[n][k]] # <<>>
    /\ \E n \in SegNodes : s_cost[n].fd /\ ~isRoot(s_ctx, n)
    /\ \E n \in SegNodes : s_nodes[n] = <<>> /\ ~s_cost[n].fd

\* C30: after calculate_costs every node of the SEG with a child is fd,
\* every node has inline_cost 1 plus the number of its children, and a
\* node that is not fd is a leaf that is not a root.
C30_OnlyNonRootLeavesInlined ==
    s_pc \in {"prepare", "print", "done", "aborted"} =>
        \A n \in SegNodes :
           /\ s_nodes[n] # <<>> => s_cost[n].fd
           /\ s_cost[n].inline_cost = 1 + Len(s_nodes[n])
           /\ ~s_cost[n].fd => (s_nodes[n] = <<>> /\ ~isRoot(s_ctx, n))

\* The costs are there for a SEG with a root of two children, inline_cost
\* 3, one of them a node with a child that is fd without being a root, the
\* other a leaf that is not fd.
C30_Witness ==
    /\ s_pc \in {"print", "done"}
    /\ \E r \in SegNodes :
          /\ isRoot(s_ctx, r) /\ Len(s_nodes[r]) = 2 /\ s_cost[r].inline_cost = 3
          /\ \E k \in 1..2 :
                /\ s_nodes[s_nodes[r][k]] # <<>>
                /\ ~isRoot(s_ctx, s_nodes[r][k])
                /\ s_cost[s_nodes[r][k]].fd
          /\ \E k \in 1..2 :
                s_nodes[s_nodes[r][k]] = <<>> /\ ~s_cost[s_nodes[r][k]].fd

\* The Operations that specialize was called with for a node
AttachedTo(n) == {s_spec.log[i][2] : i \in {j \in DOMAIN s_spec.log : s_spec.log[j][1] = n}}

\* C24: after the specialize stage the flag of a node is false exactly when
\* more than one distinct Operation was attached to it, and the Operation
\* recorded for a node is the first one attached.
C24_UnspecializableIffTwoOperations ==
    s_pc \in {"costs", "prepare", "print", "done", "aborted"} =>
        \A n \in DOMAIN s_nodes :
           /\ ~s_spec.specializeble[n] <=> Cardinality(AttachedTo(n)) > 1
           /\ AttachedTo(n) # {} =>
                 s_spec.specs[n] =
                    s_spec.log[CHOOSE i \in DOMAIN s_spec.log :
                                  /\ s_spec.log[i][1] = n
                                  /\ \A j \in 1..(i - 1) : s_spec.log[j][1] # n][2]

\* What specialize does: the flag of a node is false exactly when specialize
\* was called for the node more than once, whatever the Operations.
SpecializebleIffAttachedOnce ==
    s_pc \in {"costs", "prepare", "print", "done", "aborted"} =>
        \A n \in DOMAIN s_nodes :
           ~s_spec.specializeble[n] <=>
              Cardinality({i \in DOMAIN s_spec.log : s_spec.log[i][1] = n}) > 1

\* The calls in the body of a printed function
CallsOf(decl) == {decl.body[k] : k \in {j \in DOMAIN decl.body : decl.body[j].s = "call"}}

\* C17: in the output of print_semantics_emitter, every function that the
\* body of a printed function calls is printed before it.
C17_CalleesPrintedFirst ==
    s_pc = "done" =>
        \A i \in DOMAIN s_printed :
           \A st \in CallsOf(s_printed[i]) :
              \E j \in 1..(i - 1) : s_printed[j].function_name = st.name

\* the emitters are printed, one of them calls another and dedup had merged
\* nodes
C17_Witness ==
    /\ s_pc = "done"
    /\ \E i \in DOMAIN s_printed : CallsOf(s_printed[i]) # {}
    /\ Len(s_printed) >= 2
    /\ Len(s_pool) < Len(s_nodes)

\* The root nodes of the pool that hold a context of vi
RootNodesOf(vi) ==
    {n \in Range(s_pool) : \E j \in DOMAIN s_ctx[n] : s_ctx[n][j].vi = vi}

\* The number of contexts of vi that node n holds
ContextsOf(n, vi) == Len(SelectSeq(s_ctx[n], LAMBDA context : context.vi = vi))

\* The number of nodes below and including the root nodes of vi, a node
\* counted once
SizeOncePerNode(vi) ==
    LET q == SetToSeq(RootNodesOf(vi))
    IN SumSeq([k \in 1..Len(q) |-> Size(shape_of(s_nodes, q[k]))])

\* The same, a node counted once for every context of vi it holds
SizePerContext(vi) ==
    LET q == SetToSeq(RootNodesOf(vi))
    IN SumSeq([k \in 1..Len(q) |-> ContextsOf(q[k], vi) * Size(shape_of(s_nodes, q[k]))])

\* C18 as stated: MAX_SIZE_INSTR is the maximum over the VerifyInstructions
\* of the sum of subtree_count over the root nodes, each root node once.
C18_MaxSizeOncePerRootNode ==
    s_max # -1 =>
        /\ \E v \in Range(SegVIs(s_ctx)) : s_max = SizeOncePerNode(v)
        /\ \A v \in Range(SegVIs(s_ctx)) : s_max >= SizeOncePerNode(v)

\* C18: MAX_SIZE_INSTR is the maximum over the VerifyInstructions of the sum
\* of subtree_count over the root nodes, each root node counted once for
\* every projection of the VerifyInstruction it is valid for.
C18_MaxSizeOncePerProjection ==
    s_max # -1 =>
        /\ \E v \in Range(SegVIs(s_ctx)) : s_max = SizePerContext(v)
        /\ \A v \in Range(SegVIs(s_ctx)) : s_max >= SizePerContext(v)

\* MAX_SIZE_INSTR is emitted for a SEG with a root node that holds two
\* contexts of one VerifyInstruction and a subtree below it
C18_Witness ==
    /\ s_max # -1
    /\ \E n \in Range(s_pool), v \in Range(SegVIs(s_ctx)) :
          ContextsOf(n, v) >= 2 /\ s_nodes[n] # <<>>
    /\ Len(SegVIs(s_ctx)) >= 2

\* ==========================================================================
\*  Equality saturation: EqSatRunner::run and step
\*  (Transforms/EqualitySaturation.cpp).  An e-graph is kept as the set of
\*  its terms, the class of every term and the unions that wait for the
\*  next rebuild; a rule <<a, b>> rewrites term a to term b.
\* ==========================================================================

MaxRules == 2
MaxTerms == 3

EqTerms == 1..MaxTerms

EqRuleMenu == {r \in EqTerms \X EqTerms : r[1] # r[2]}

stop_reason == {"saturated", "iteration_limit", "node_limit", "time_limit", "unknown"}

\* Rule::match: lhs.match( egraph ), the classes the left side is found in
match_rule(egraph, rule) ==
    IF rule[1] \in egraph.terms THEN <<egraph.class[rule[1]]>> ELSE <<>>

\* Rule::apply: rhs.apply_on_matches( egraph, matches ): the right side is
\* added and united with every matched class
apply_rule(egraph, rule, matches) ==
    [egraph EXCEPT !.terms = IF matches = <<>> THEN @ ELSE @ \cup {rule[2]},
                   !.pending = @ \cup {<<matches[k], rule[2]>> : k \in DOMAIN matches}]

\* egraph.rebuild(): the waiting unions are carried out, one at a time
RECURSIVE rebuild(_)
rebuild(egraph) ==
    IF egraph.pending = {} THEN egraph
    ELSE LET u == CHOOSE u \in egraph.pending : TRUE
             a == egraph.class[egraph.class[u[1]]]
             b == egraph.class[u[2]]
             lo == IF a <= b THEN a ELSE b
         IN rebuild([egraph EXCEPT
                        !.class = [t \in EqTerms |-> IF @[t] \in {a, b} THEN lo ELSE @[t]],
                        !.pending = @ \ {u}])

EqInit ==
    /\ MemIdle /\ PassIdle /\ DecIdle /\ DrvIdle /\ SegIdle /\ FnIdle /\ QueueIdle
    /\ q_pc = "run"
    /\ \E n \in 0..MaxRules : q_rules \in [1..n -> EqRuleMenu]
    /\ \E terms \in (SUBSET EqTerms) \ {{}} :
          q_egraph = [terms |-> terms, class |-> [t \in EqTerms |-> t], pending |-> {}]
    /\ q_matches = <<>>
    /\ q_i = 0
    /\ q_stopped = "nullopt"

\* run: _egraph.rebuild(); Status stopped = std::nullopt
EqRun ==
    /\ q_pc = "run"
    /\ q_egraph' = rebuild(q_egraph)
    /\ q_stopped' = "nullopt"
    /\ q_pc' = "loop"
    /\ UNCHANGED <<q_rules, q_matches, q_i, eqOthers>>

\* run: while (!stopped.has_value()), the body is entered
EqLoop ==
    /\ q_pc = "loop" /\ q_stopped = "nullopt"
    /\ q_matches' = <<>>
    /\ q_i' = 1
    /\ q_pc' = "match"
    /\ UNCHANGED <<q_rules, q_egraph, q_stopped, eqOthers>>

\* step: one turn of the first for loop
EqMatch ==
    /\ q_pc = "match" /\ q_i <= Len(q_rules)
    /\ q_matches' = Append(q_matches, <<q_rules[q_i], match_rule(q_egraph, q_rules[q_i])>>)
    /\ q_i' = q_i + 1
    /\ UNCHANGED <<q_pc, q_rules, q_egraph, q_stopped, eqOthers>>

EqMatchDone ==
    /\ q_pc = "match" /\ q_i > Len(q_rules)
    /\ q_i' = 1
    /\ q_pc' = "apply"
    /\ UNCHANGED <<q_rules, q_egraph, q_matches, q_stopped, eqOthers>>

\* step: one turn of the second for loop
EqApply ==
    /\ q_pc = "apply" /\ q_i <= Len(q_matches)
    /\ q_egraph' = apply_rule(q_egraph, q_matches[q_i][1], q_matches[q_i][2])
    /\ q_i' = q_i + 1
    /\ UNCHANGED <<q_pc, q_rules, q_matches, q_stopped, eqOthers>>

\* step: _egraph.rebuild(); return stop_reason::unknown; and the
\* assignment stopped = step( rules ) of run
EqRebuild ==
    /\ q_pc = "apply" /\ q_i > Len(q_matches)
    /\ q_egraph' = rebuild(q_egraph)
    /\ q_stopped' = "unknown"
    /\ q_pc' = "loop"
    /\ UNCHANGED <<q_rules, q_matches, q_i, eqOthers>>

\* run: the loop is left, return stopped.value()
EqReturn ==
    /\ q_pc = "loop" /\ q_stopped # "nullopt"
    /\ q_pc' = "returned"
    /\ UNCHANGED <<q_rules, q_egraph, q_matches, q_i, q_stopped, eqOthers>>

EqNext ==
    \/ EqRun \/ EqLoop \/ EqMatch \/ EqMatchDone \/ EqApply \/ EqRebuild \/ EqReturn

SpecEqSat == EqInit /\ [][EqNext]_vars

\* C20: run returns with one of the reasons saturated, iteration_limit,
\* node_limit, time_limit, whatever the rules, an empty list included.
C20_StopsWithAStopCondition ==
    q_pc = "returned" =>
        q_stopped \in {"saturated", "iteration_limit", "node_limit", "time_limit"}

\* ==========================================================================
\*  SEGNode::get_hash as a function of the tree below a node
\*  (SEG/SEGMultiGraph.cpp)
\* ==========================================================================

MaxWide == 11

\* A node with n leaves as children
Wide(n) == [i \in 1..n |-> Leaf]

\* The trees get_hash is compared on: small ones, and ones that have a node
\* with nine and more children at the top, one or two levels down, or
\* beside a first child that has a child of its own
HashShapes ==
    {Leaf, <<Leaf>>, <<Leaf, Leaf>>, <<<<Leaf>>>>, <<<<Leaf>>, Leaf>>, <<Leaf, <<Leaf>>>>}
    \cup {Wide(n) : n \in 9..MaxWide}
    \cup {<<Wide(n)>> : n \in 9..MaxWide}
    \cup {<<<<Wide(n)>>>> : n \in 9..MaxWide}
    \cup {<<<<Leaf>>>> \o Wide(n) : n \in 9..MaxWide}

HashInit ==
    /\ MemIdle /\ PassIdle /\ DecIdle /\ DrvIdle /\ SegIdle /\ EqIdle /\ QueueIdle
    /\ f_pc = "get_hash"
    /\ f_in \in HashShapes \X HashShapes
    /\ f_out = <<>>

\* a.get_hash() and b.get_hash() for two nodes of one graph
HashCall ==
    /\ f_pc = "get_hash"
    /\ \E nodes \in {Build(f_in[1], 1) \o Build(f_in[2], 1 + Size(f_in[1]))} :
          f_out' = <<get_hash(nodes, 1), get_hash(nodes, 1 + Size(f_in[1]))>>
    /\ f_pc' = "hashed"
    /\ UNCHANGED <<f_in, fnOthers>>

HashNext == HashCall

SpecHash == HashInit /\ [][HashNext]_vars

\* C22: the hashes of two nodes are equal exactly when the trees below them
\* have the same number of children at every position.
C22_HashIffSameShape ==
    f_pc = "hashed" => (f_out[1] = f_out[2] <=> f_in[1] = f_in[2])

\* get_hash has been taken of a chain that ends in a node of ten leaves and
\* of a node of eleven children, which the same digits describe
C22_Witness ==
    /\ f_pc = "hashed"
    /\ f_in[1] = <<<<Wide(10)>>>>
    /\ f_in[2] = <<<<Leaf>>>> \o Wide(10)
    /\ f_out[1] # f_out[2]

\* ==========================================================================
\*  IRToBitBlastableSMTVisitor (IR/SMT.hpp): the value of the expression
\*  built for an operation, for given values of its operands.  A bit-vector
\*  is kept as its unsigned value.
\* ==========================================================================

MaxOnlyOne == 5
MaxIndexWidth == 2

\* std::bit_xor on two bit-vectors of one bit
bit_xor(lhs, rhs) == (lhs + rhs) % 2

OnlyOneInit ==
    /\ MemIdle /\ PassIdle /\ DecIdle /\ DrvIdle /\ SegIdle /\ EqIdle /\ QueueIdle
    /\ f_pc = "accumulate"
    /\ \E n \in 1..MaxOnlyOne : f_in \in [1..n -> {0, 1}]
    /\ f_out = <<>>

\* accumulate: auto init = Dispatch( operands[ 0 ] )
OnlyOneFirst ==
    /\ f_pc = "accumulate" /\ f_out = <<>>
    /\ f_out' = [acc |-> f_in[1], i |-> 2]
    /\ UNCHANGED <<f_pc, f_in, fnOthers>>

\* accumulate: one step of std::accumulate, fn( lhs, Dispatch( rhs ) ) with
\* the std::bit_xor that Visit( OnlyOneCondition * ) passes
OnlyOneStep ==
    /\ f_pc = "accumulate" /\ f_out # <<>>
    /\ f_out.i <= Len(f_in)
    /\ f_out' = [acc |-> bit_xor(f_out.acc, f_in[f_out.i]), i |-> f_out.i + 1]
    /\ UNCHANGED <<f_pc, f_in, fnOthers>>

\* Visit( OnlyOneCondition * ) returns what accumulate returned
OnlyOneReturn ==
    /\ f_pc = "accumulate" /\ f_out # <<>>
    /\ f_out.i > Len(f_in)
    /\ f_pc' = "only_one"
    /\ UNCHANGED <<f_in, f_out, fnOthers>>

OnlyOneNext == OnlyOneFirst \/ OnlyOneStep \/ OnlyOneReturn

SpecOnlyOne == OnlyOneInit /\ [][OnlyOneNext]_vars

\* C25: the translation of OnlyOneCondition has the value 1 exactly when
\* exactly one of the operands is 1.
C25_OnlyOneIsExactlyOne ==
    f_pc = "only_one" =>
        (f_out.acc = 1 <=> Cardinality({i \in DOMAIN f_in : f_in[i] = 1}) = 1)

\* z3::ite
ite(cond, then, else) == IF cond THEN then ELSE else

\* ctx.bv_val( n, bw ): the bit-vector of width bw of the number n
bv_val(n, bw) == n % Pow2(bw)

SelectInit ==
    /\ MemIdle /\ PassIdle /\ DecIdle /\ DrvIdle /\ SegIdle /\ EqIdle /\ QueueIdle
    /\ f_pc = "select"
    /\ \E w \in 1..MaxIndexWidth :
          f_in \in [bw : {w}, index : 0..(Pow2(w) - 1), values : [1..Pow2(w) -> {0, 1}]]
    /\ f_out = <<>>

\* Visit( Select * ) up to the loop: operands[ 1 ] against the index 0,
\* undef is the bit-vector 0
SelectFirst ==
    /\ f_pc = "select" /\ f_out = <<>>
    /\ LET value == f_in.values[1]
           current == bv_val(0, f_in.bw)
           undef == bv_val(0, 1)
       IN f_out' = [result |-> ite(current = f_in.index, value, undef), i |-> 2]
    /\ UNCHANGED <<f_pc, f_in, fnOthers>>

\* Visit( Select * ), one turn of the loop: operands[ i ] is f_in.values[ i ]
\* (operands[ 0 ] is the index), current = ctx.bv_val( i, bw )
SelectStep ==
    /\ f_pc = "select" /\ f_out # <<>>
    /\ f_out.i < Len(f_in.values) + 1
    /\ LET value == f_in.values[f_out.i]
           current == bv_val(f_out.i, f_in.bw)
       IN f_out' = [result |-> ite(current = f_in.index, value, f_out.result),
                    i |-> f_out.i + 1]
    /\ UNCHANGED <<f_pc, f_in, fnOthers>>

SelectReturn ==
    /\ f_pc = "select" /\ f_out # <<>>
    /\ f_out.i >= Len(f_in.values) + 1
    /\ f_pc' = "selected"
    /\ UNCHANGED <<f_in, f_out, fnOthers>>

SelectNext == SelectFirst \/ SelectStep \/ SelectReturn

SpecSelect == SelectInit /\ [][SelectNext]_vars

\* C26: the translation of a Select has the value of the value operand
\* v_k when the index is k.
C26_SelectsValueAtIndex ==
    f_pc = "selected" => f_out.result = f_in.values[f_in.index + 1]


(***************************************************************************)
(* The interpreter's queues (lib/Run/Queue.cpp).                          *)
(*                                                                         *)
(* An operation is a number; k_ops gives its unique_operands_count and    *)
(* its mem_idx, -1 for an operation that is neither a ReadConstraint nor  *)
(* a WriteConstraint.  k_q is the queue object: todo, the MemoryOrdering  *)
(* (allowed, constraints), waiting, and aborted once a check has failed.  *)
(***************************************************************************)
MaxQueueOps == 2
MaxUnique == 2
MaxNotify == 3
MaxMemIdx == 2

NoMemIdx == 0 - 1

QueueOps(n) == 1 .. n

\* MemoryOrdering::mem_idx: only read and write constraints have one.
mem_idx(ops, op) == ops[op].mem_idx

is_mem_constraint(ops, op) == mem_idx(ops, op) # NoMemIdx

Levels == 0 .. (MaxMemIdx + 1)

\* MemoryOrdering::extend: the vector is resized to desired + 1 unless it
\* is already that long.
extend(constraints, desired) ==
    IF desired < Len(constraints) THEN constraints
    ELSE constraints \o [i \in 1 .. (desired + 1 - Len(constraints)) |->
                            [count |-> 0, ops |-> {}]]

\* MemoryOrdering's constructor: every read / write constraint of the
\* current VerifyInstruction is registered at its mem_idx.  constraints is
\* the vector, element i + 1 being level i.
RECURSIVE init_constraints(_, _, _)
init_constraints(ops, constraints, op) ==
    IF op > Len(ops) THEN constraints
    ELSE IF ~is_mem_constraint(ops, op) THEN init_constraints(ops, constraints, op + 1)
    ELSE LET idx == mem_idx(ops, op)
             ext == extend(constraints, idx)
         IN  init_constraints(ops,
                 [ext EXCEPT ![idx + 1] = [count |-> @.count + 1,
                                           ops |-> @.ops \cup {op}]],
                 op + 1)

\* The queue right after construction.
new_queue(ops) ==
    [todo |-> <<>>, allowed |-> 0,
     constraints |-> init_constraints(ops, <<>>, 1),
     waiting |-> [l \in Levels |-> <<>>],
     aborted |-> FALSE]

\* MemoryOrdering::raise_level
raise_level(q) == [q EXCEPT !.allowed = @ + 1]

\* MemoryOrdering::remove_constraint after its two checks have passed.
remove_constraint(q, idx, op) ==
    [q EXCEPT !.constraints[idx + 1] =
                  [count |-> @.count - 1, ops |-> @.ops \ {op}]]

\* A variant of enable_next_level that raises whatever the count is.
enable_next_level_always(q) == raise_level(q)

\* MemoryOrdering::enable_next_level: the level that is looked at is the
\* one allowed on entry.
enable_next_level(q) ==
    IF q.constraints[q.allowed + 1].count = 0 THEN raise_level(q) ELSE q

\* QueueWithMemOrder::push, with the loop over waiting[allowed] that calls
\* push again.  The loop runs over the list found when it starts; the list
\* cleared afterwards is the one of the level allowed when the loop is over.
RECURSIVE push(_, _, _)
RECURSIVE push_waiting(_, _, _, _)
push(q, ops, op) ==
    IF q.aborted THEN q
    ELSE IF ~is_mem_constraint(ops, op) THEN [q EXCEPT !.todo = Append(@, op)]
    ELSE LET idx == mem_idx(ops, op) IN
         IF idx < q.allowed THEN q
         ELSE IF idx > q.allowed THEN [q EXCEPT !.waiting[idx] = Append(@, op)]
         ELSE LET pushed == [q EXCEPT !.todo = Append(@, op)] IN
              IF op \notin pushed.constraints[idx + 1].ops
              THEN [pushed EXCEPT !.aborted = TRUE]
              ELSE LET removed == remove_constraint(pushed, idx, op)
                       enabled == enable_next_level(removed)
                   IN  IF enabled.allowed = removed.allowed THEN removed
                       ELSE LET looped == push_waiting(enabled, ops,
                                              enabled.waiting[enabled.allowed], 1)
                            IN  IF looped.aborted THEN looped
                                ELSE [looped EXCEPT !.waiting[looped.allowed] = <<>>]

push_waiting(q, ops, list, i) ==
    IF i > Len(list) THEN q
    ELSE push_waiting(push(q, ops, list[i]), ops, list, i + 1)

\* TodoQueue::_notify: emplace leaves an existing entry alone.
emplace(blocked, op, count) ==
    IF op \in DOMAIN blocked THEN blocked ELSE (op :> count) @@ blocked

\* ---- TodoQueue ----
TodoInit ==
    /\ MemIdle /\ PassIdle /\ DecIdle /\ DrvIdle /\ SegIdle /\ EqIdle /\ FnIdle
    /\ \E n \in 1 .. MaxQueueOps :
         k_ops \in [QueueOps(n) -> [unique_operands_count : 1 .. MaxUnique,
                                    mem_idx : {NoMemIdx}]]
    /\ k_calls = [op \in DOMAIN k_ops |-> 0]
    /\ k_limit = MaxNotify
    /\ k_blocked = <<>>
    /\ k_q = new_queue(k_ops)

\* TodoQueue::notify(from, to), which is _notify(to).
TodoNotify ==
    \E op \in DOMAIN k_ops :
        /\ k_calls[op] < k_limit
        /\ k_calls' = [k_calls EXCEPT ![op] = @ + 1]
        /\ \E emplaced \in {emplace(k_blocked, op, k_ops[op].unique_operands_count)} :
             IF emplaced[op] <= 1
             THEN /\ k_q' = push(k_q, k_ops, op)
                  /\ k_blocked' = [emplaced EXCEPT ![op] = 0]
             ELSE /\ k_q' = k_q
                  /\ k_blocked' = [emplaced EXCEPT ![op] = @ - 1]
        /\ UNCHANGED <<k_ops, k_limit, queueOthers>>

TodoNext == TodoNotify

SpecTodo == TodoInit /\ [][TodoNext]_vars

\* How often an operation is on the todo list.
TimesOnTodo(op) == Cardinality({i \in DOMAIN k_q.todo : k_q.todo[i] = op})

\* C27: an operation with n >= 1 unique operands is on the todo list exactly
\* once from its n-th notification on and not at all before it.
C27_PushedOnceAtNthNotification ==
    \A op \in DOMAIN k_ops :
        TimesOnTodo(op) =
            IF k_calls[op] >= k_ops[op].unique_operands_count THEN 1 ELSE 0

\* ---- QueueWithMemOrder ----
MaxConstraints == 3

MemOrderInit ==
    /\ MemIdle /\ PassIdle /\ DecIdle /\ DrvIdle /\ SegIdle /\ EqIdle /\ FnIdle
    /\ \E n \in 1 .. MaxConstraints :
         k_ops \in [QueueOps(n) -> [unique_operands_count : {1},
                                    mem_idx : NoMemIdx .. MaxMemIdx]]
    /\ k_calls = [op \in DOMAIN k_ops |-> 0]
    /\ k_limit \in 1 .. 2
    /\ k_blocked = <<>>
    /\ k_q = new_queue(k_ops)

\* One call of QueueWithMemOrder::push; a failed check ends the process.
MemOrderPush ==
    \E op \in DOMAIN k_ops :
        /\ ~k_q.aborted
        /\ k_calls[op] < k_limit
        /\ k_calls' = [k_calls EXCEPT ![op] = @ + 1]
        /\ k_q' = push(k_q, k_ops, op)
        /\ UNCHANGED <<k_ops, k_limit, k_blocked, queueOthers>>

MemOrderNext == MemOrderPush

SpecMemOrder == MemOrderInit /\ [][MemOrderNext]_vars

\* The caller goes on pushing as long as it has something to push.
SpecMemOrderFair == SpecMemOrder /\ WF_vars(MemOrderNext)

\* The read / write constraints registered for the VerifyInstruction.
Registered == {op \in DOMAIN k_ops : is_mem_constraint(k_ops, op)}

RegisteredAt(level) == {op \in Registered : mem_idx(k_ops, op) = level}

OnTodo == {k_q.todo[i] : i \in DOMAIN k_q.todo}

\* The memory constraints of a todo list, in its order.
MemTodo(todo) == SelectSeq(todo, LAMBDA op : is_mem_constraint(k_ops, op))

NonDecreasing(todo) ==
    \A i, j \in DOMAIN todo :
        i < j => mem_idx(k_ops, todo[i]) <= mem_idx(k_ops, todo[j])

\* What a step has appended to todo.
Appended == SubSeq(k_q'.todo, Len(k_q.todo) + 1, Len(k_q'.todo))

\* C28: constraints are on todo in non-decreasing mem_idx order; no
\* constraint above the allowed level is on todo; every constraint
\* registered below the allowed level is on todo; allowed never decreases,
\* and what a step appends lies between the level allowed before it and
\* the one allowed after it, while a push above the allowed level appends
\* nothing and puts the constraint on its waiting list.
C28_TodoInMemIdxOrder ==
    /\ [](NonDecreasing(MemTodo(k_q.todo)))
    /\ [](\A op \in Registered :
            /\ mem_idx(k_ops, op) > k_q.allowed => op \notin OnTodo
            /\ mem_idx(k_ops, op) < k_q.allowed => op \in OnTodo)
    /\ [][/\ k_q'.allowed >= k_q.allowed
          /\ k_q.todo = SubSeq(k_q'.todo, 1, Len(k_q.todo))
          /\ \A i \in DOMAIN MemTodo(Appended) :
               /\ mem_idx(k_ops, MemTodo(Appended)[i]) >= k_q.allowed
               /\ mem_idx(k_ops, MemTodo(Appended)[i]) <= k_q'.allowed
          /\ \A op \in Registered :
               (k_calls'[op] > k_calls[op] /\ mem_idx(k_ops, op) > k_q.allowed)
                   => /\ k_q'.todo = k_q.todo
                      /\ k_q'.allowed = k_q.allowed
                      /\ k_q'.waiting[mem_idx(k_ops, op)] =
                             Append(k_q.waiting[mem_idx(k_ops, op)], op)]_vars

\* A constraint that waited at level 1 and one that waited at level 2 are
\* both on todo, behind the constraint of level 0, released by one push.
C28_Witness ==
    /\ k_limit = 1
    /\ Len(k_q.todo) = 3
    /\ \A i \in 1 .. 3 : mem_idx(k_ops, k_q.todo[i]) = i - 1
    /\ k_calls[k_q.todo[1]] = 1
    /\ k_q.allowed = 3

AllPushed == \A op \in DOMAIN k_ops : k_calls[op] >= 1

WaitingEmpty == \A l \in DOMAIN k_q.waiting : k_q.waiting[l] = <<>>

\* C29: when every constraint is pushed once, in whatever order, all of
\* them end up on todo and every waiting list ends up empty.
C29_NoConstraintWaitsForever ==
    (k_limit = 1) => <>(AllPushed /\ Registered \subseteq OnTodo /\ WaitingEmpty)

\* The two parts of C29 on their own, for the VerifyInstructions in which
\* no level below a registered constraint is without one.
NoGap == \A l \in 0 .. MaxMemIdx :
             RegisteredAt(l) = {} => \A h \in l .. MaxMemIdx : RegisteredAt(h) = {}

C29_EventuallyAppendedWithoutGap ==
    (k_limit = 1 /\ NoGap) => <>(AllPushed /\ Registered \subseteq OnTodo)

C29_WaitingEventuallyEmptyWithoutGap ==
    (k_limit = 1 /\ NoGap) => <>(AllPushed /\ WaitingEmpty)
====
